---- MODULE Spec2Model ----
(***************************************************************************)
(* A model of the dose / protocol computation logic of microdos-api:       *)
(*   - POST /api/protocol/create and generateProtocolEvents                *)
(*     (src/src/modules/protocol/routes.ts) with                           *)
(*     NotificationService.generateProtocolNotifications                   *)
(*     (src/unnamed/part_002): Spec, and SpecMulti for concurrent requests,*)
(*   - MicrodoseCalculator.calculate / validateParams                      *)
(*     (src/unnamed/part_001) with the tables of src/src/types/microdose.ts*)
(*     SpecCalc,                                                           *)
(*   - POST /api/microdose/calculate-temporary and /save-profile           *)
(*     (src/src/modules/microdose/routes.ts): SpecRoutes,                  *)
(*   - DELETE /api/protocol/:id interleaved with POST /api/journal/entry   *)
(*     (src/unnamed/part_004): SpecDelete,                                 *)
(*   - POST /api/microdose/register-with-calculation, concurrently:        *)
(*     SpecRegister,                                                       *)
(*   - POST /api/protocol/create on a store whose calls can fail:          *)
(*     SpecFailing.                                                        *)
(*                                                                         *)
(* Instants are whole minutes since the model epoch, Thursday              *)
(* 2026-03-26T00:00Z.  Every instant the handler builds is a whole minute  *)
(* except endDate (23:59:59.999), which is kept as 23:59: the only use of  *)
(* endDate is the comparison currentDate <= endDate against whole minutes, *)
(* which the truncation does not change.                                   *)
(***************************************************************************)
EXTENDS Integers, Sequences, FiniteSets, TLC

VARIABLES
  tz,            \* the host's time zone: what Date's local-time methods use
  profile,       \* the user's microdoseProfile row, or NoProfile
  pc,            \* position of the create request
  status,        \* HTTP status of the response so far (0: none yet)
  request,       \* req.body of the create request, or NoRequest
  protocol,      \* the stored protocol row, or NoProtocol
  events,        \* the stored protocolEvent rows, in creation order
  notifications, \* the stored notification rows, in creation order
  activities,    \* the stored userActivity rows, in creation order
  currentDate,   \* generateProtocolEvents: loop variable
  dayCount,      \* generateProtocolEvents: loop counter
  params,        \* calculator: the parameter record under consideration
  calcPc,        \* calculator: "input", "validated", "calculated"
  validation,    \* calculator: result of validateParams, or NoResult
  result,        \* calculator: result of calculate, or NoResult
  runs,            \* concurrent requests: the state of each handler
  eventTable,      \* concurrent requests: the protocolEvent rows stored
  calcRequest,     \* calculator routes: the request, or NoRequest
  routePc,         \* calculator routes: position of the handler
  tempCalculation, \* the stored temporaryCalculation row of the session, or NoRow
  onDelete,        \* deletion: the referential action of the store's foreign keys
  journalEntries,  \* deletion: the stored journalEntry rows
  deletion,        \* deletion: the state of the DELETE /api/protocol/:id handler
  journal,         \* deletion: the state of each POST /api/journal/entry handler
  users,           \* registration: the stored user rows
  profileTable,    \* registration: the stored microdoseProfile rows
  registrations    \* registration: the state of each register-with-calculation handler

protoVars == <<tz, profile, pc, status, request, protocol, events, notifications,
               activities, currentDate, dayCount>>
calcVars  == <<params, calcPc, validation, result>>
multiVars == <<runs, eventTable>>
routeVars == <<calcRequest, routePc, tempCalculation>>
deleteVars   == <<onDelete, journalEntries, deletion, journal>>
registerVars == <<users, profileTable, registrations>>
storeVars    == <<onDelete, journalEntries, deletion, journal,
                  users, profileTable, registrations>>
otherVars == <<runs, eventTable, calcRequest, routePc, tempCalculation,
               onDelete, journalEntries, deletion, journal,
               users, profileTable, registrations>>
vars      == <<tz, profile, pc, status, request, protocol, events, notifications,
               activities, currentDate, dayCount,
               params, calcPc, validation, result,
               runs, eventTable, calcRequest, routePc, tempCalculation,
               onDelete, journalEntries, deletion, journal,
               users, profileTable, registrations>>

-----------------------------------------------------------------------------
(* Bounds of the model *)

\* start dates offered to the create request: days 0..MaxStartDay of the epoch
MaxStartDay == 6
\* the grid of weights offered to the calculator has WeightSteps + 1 points
WeightSteps == 36
\* the grid of sensitivities offered to the calculator has SensSteps + 1 points
SensSteps == 19

-----------------------------------------------------------------------------
(* Calendar and the host's clock *)

\* 1000 * 60 * 60 * 24 ms, in minutes
MinutesPerDay == 1440

Weekdays == 0..6

\* The weekday (0 = Sunday) of a day number of the epoch; day 0 is a Thursday.
WeekdayOfDay(d) == (4 + d) % 7

\* Time zones a host may run in.  std/dst are the offsets from UTC in minutes,
\* dstStart the instant the dst offset begins to apply (0: one offset throughout).
\* Europe/Berlin moves from +01:00 to +02:00 on Sunday 2026-03-29 at 01:00Z,
\* which is day 3 of the epoch; America/New_York is at -04:00 throughout.
TimeZones ==
  { [name |-> "UTC",              std |-> 0,    dst |-> 0,    dstStart |-> 0],
    [name |-> "Europe/Berlin",    std |-> 60,   dst |-> 120,  dstStart |-> 3 * MinutesPerDay + 60],
    [name |-> "America/New_York", std |-> -240, dst |-> -240, dstStart |-> 0] }

\* offset of local time from UTC at instant t
Offset(z, t) == IF t < z.dstStart THEN z.std ELSE z.dst

\* LocalTime(t) of ECMAScript: the wall-clock reading of instant t
LocalTime(z, t) == t + Offset(z, t)

\* UTC(t) of ECMAScript: the instant of a wall-clock reading; a reading that the
\* clock skips is taken with the offset before the transition.
UTCOfLocal(z, l) ==
  IF l - z.std < z.dstStart THEN l - z.std
  ELSE IF l - z.dst >= z.dstStart THEN l - z.dst
  ELSE l - z.std

\* Date.prototype.getDay(): weekday of the local date
getDay(z, t) == WeekdayOfDay(LocalTime(z, t) \div MinutesPerDay)

\* d.setDate(d.getDate() + 1): the same wall-clock time on the next local day
setDateNextDay(z, t) == UTCOfLocal(z, LocalTime(z, t) + MinutesPerDay)

\* the instant left as it is
keepTimeOfDay(t) == t

\* d.setUTCHours(0, 0, 0, 0)
setUTCMidnight(t) == (t \div MinutesPerDay) * MinutesPerDay

\* d.setUTCHours(23, 59, 59, 999)
setUTCEndOfDay(t) == (t \div MinutesPerDay) * MinutesPerDay + (MinutesPerDay - 1)

\* d.setUTCDate(d.getUTCDate() + n)
setUTCDatePlus(t, n) == t + n * MinutesPerDay

\* Math.floor((a - b) / (1000 * 60 * 60 * 24))
daysBetween(a, b) == (a - b) \div MinutesPerDay

-----------------------------------------------------------------------------
(* Rational numbers: the model's stand-in for the numbers of the program.   *)
(* A number is [n |-> numerator, d |-> denominator] with d > 0, in lowest   *)
(* terms, so that equal numbers are equal records.                          *)

RECURSIVE GCD(_, _)
GCD(a, b) == IF b = 0 THEN a ELSE GCD(b, a % b)

Abs(x) == IF x < 0 THEN -x ELSE x

Rat(n, d) ==
  LET g == GCD(Abs(n), d)
  IN  IF n = 0 THEN [n |-> 0, d |-> 1] ELSE [n |-> n \div g, d |-> d \div g]

\* values of a number field that are not rationals: the property is missing,
\* NaN, or a member of Object.prototype found by a lookup in a table object
UndefinedNum == [n |-> 0, d |-> 0]
NaN          == [n |-> 1, d |-> 0]
Inherited    == [n |-> 2, d |-> 0]
\* a string property that is missing from the record
Missing      == "<undefined>"

IsNum(x) == x.d > 0

\* a * b of ECMAScript: NaN when an operand is undefined or NaN
Times(a, b) ==
  IF IsNum(a) /\ IsNum(b) THEN Rat(a.n * b.n, a.d * b.d) ELSE NaN

\* a / k for a positive integer literal k
DivideBy(a, k) == IF IsNum(a) THEN Rat(a.n, a.d * k) ELSE NaN

\* a < b, a > b of ECMAScript: false when an operand is undefined or NaN
Less(a, b)    == IsNum(a) /\ IsNum(b) /\ a.n * b.d < b.n * a.d
Greater(a, b) == Less(b, a)

\* Math.round: the nearest integer, a tie rounded towards +infinity
MathRound(x) ==
  IF IsNum(x) THEN Rat((2 * x.n + x.d) \div (2 * x.d), 1) ELSE NaN

\* !x for a number field and for a string field
NotNum(x) == x = UndefinedNum \/ x = NaN \/ (IsNum(x) /\ x.n = 0)
NotStr(x) == x = Missing \/ x = ""

\* ToIntegerOrInfinity of a number that is not negative: the fraction is dropped
ToIntegerOrInfinity(x) == x.n \div x.d

-----------------------------------------------------------------------------
(* POST /api/protocol/create and generateProtocolEvents *)

ProtocolTypes == {"fadiman", "stamets", "custom"}

\* z.number().min(2).max(6)
MinCycleLength == 2
MaxCycleLength == 6

\* 'Maximum 4 dose days per week allowed for safety'
MaxDoseDays == 4

NoProfile  == [substance |-> "none"]
NoProtocol == [id |-> 0]
\* settings.custom absent from the request
NoCustom   == [absent |-> TRUE]

\* null in a column of a protocolEvent row
NullString == "null"
NullDose   == [n |-> 0, d |-> 0]

\* microdoseProfile rows a user may have (calculatedDose 200 mg, 2.5 ug)
Profiles ==
  { [substance |-> "psilocybin", calculatedDose |-> Rat(200, 1), doseUnit |-> "mg"],
    [substance |-> "lsd",        calculatedDose |-> Rat(5, 2),   doseUnit |-> "ug"] }

\* the ascending list of a set of weekdays
RECURSIVE SortedSeq(_)
SortedSeq(S) ==
  IF S = {} THEN <<>>
  ELSE LET m == CHOOSE x \in S : \A y \in S : x <= y
       IN  <<m>> \o SortedSeq(S \ {m})

\* settings.custom of the requests offered: absent, or its doseDays array: every
\* set of weekdays in ascending order, and some arrays out of order or with repeats
CustomInputs ==
  {NoCustom}
  \cup {[doseDays |-> SortedSeq(S)] : S \in SUBSET Weekdays}
  \cup {[doseDays |-> s] : s \in {<<5, 3, 1>>, <<6, 0>>, <<2, 2>>, <<3, 3, 3, 3, 3>>}}

\* settings.custom offered with a request of the given type (the handler reads it
\* for type custom only)
CustomInputsFor(type) == IF type = "custom" THEN CustomInputs ELSE {NoCustom}

\* times of day (minutes) of the startDate strings offered
StartTimes == {0, 570, MinutesPerDay - 1}

\* cycleLength values offered: the whole numbers around the schema's range, and a
\* number of weeks that is not whole (2.5)
CycleLengths ==
  {Rat(k, 1) : k \in (MinCycleLength - 1)..(MaxCycleLength + 1)} \cup {Rat(5, 2)}

\* the cycleLength values offered with custom requests: up to two and a half weeks
ShortCycleLengths == {c \in CycleLengths : ~Greater(c, Rat(5, 2))}

\* the two parts of an "HH:MM" string, as parseInt reads them after split(':')
MorningTime == [hours |-> 8,  minutes |-> 0]
EveningTime == [hours |-> 20, minutes |-> 0]

\* notificationSettings of the requests offered: every choice of the two flags
NotificationInputs ==
  { [ morningReminder   |-> [enabled |-> m, time |-> MorningTime],
      eveningReflection |-> [enabled |-> e, time |-> EveningTime] ] :
    m, e \in BOOLEAN }

\* notificationSettings offered with a custom request
MorningOnly ==
  [ morningReminder   |-> [enabled |-> TRUE,  time |-> MorningTime],
    eveningReflection |-> [enabled |-> FALSE, time |-> EveningTime] ]

\* req.body of a create request (name and channels are stored and not read again)
body(type, startDate, cycleLength, custom, notificationSettings) ==
  [ type                 |-> type,
    startDate            |-> startDate,
    cycleLength          |-> cycleLength,
    settings             |-> [custom |-> custom],
    notificationSettings |-> notificationSettings ]

\* The requests offered.  fadiman and stamets requests vary the time of day of
\* startDate, the notification flags and cycleLength in full; custom requests
\* vary settings.custom in full, over the short cycle lengths.
Requests ==
  { body(type, day * MinutesPerDay + time, cycleLength, NoCustom, ns) :
      type \in {"fadiman", "stamets"}, day \in 0..MaxStartDay, time \in StartTimes,
      cycleLength \in CycleLengths, ns \in NotificationInputs }
  \cup
  { body("custom", day * MinutesPerDay + 570, cycleLength, custom, MorningOnly) :
      day \in 0..MaxStartDay, cycleLength \in ShortCycleLengths, custom \in CustomInputs }

NoRequest == [type |-> "none"]

\* req.user.id of the requests offered (requireAuth has let them pass)
UserId == "user"

\* Array.prototype.includes
includes(arr, x) == \E i \in DOMAIN arr : arr[i] = x

\* createProtocolSchema.parse, as far as the offered requests can fail it
schemaAccepts(type, cycleLength) ==
  /\ type \in ProtocolTypes
  /\ IsNum(cycleLength)
  /\ ~Less(cycleLength, Rat(MinCycleLength, 1))
  /\ ~Greater(cycleLength, Rat(MaxCycleLength, 1))

\* the loop body's classification of currentDate (isDoseDay)
isDoseDayOf(p, cur) ==
  LET dayOfWeek == getDay(tz, cur)
  IN  IF p.type = "fadiman"
        THEN daysBetween(cur, p.startDate) % 3 = 0
      ELSE IF p.type = "stamets"
        THEN (daysBetween(cur, p.startDate) % 7) < 4
      ELSE IF p.type = "custom"
        THEN /\ p.settings.custom # NoCustom
             /\ includes(p.settings.custom.doseDays, dayOfWeek)
      ELSE FALSE

\* eventOf with the dose columns filled on every row
eventOfDoseAlways(id, p, prof, cur) ==
  LET isDoseDay == isDoseDayOf(p, cur)
  IN  [ id         |-> id,
        protocolId |-> p.id,
        date       |-> setUTCMidnight(cur),
        type       |-> IF isDoseDay THEN "dose" ELSE "pause",
        status     |-> "scheduled",
        substance  |-> prof.substance,
        dose       |-> prof.calculatedDose,
        doseUnit   |-> prof.doseUnit,
        metadata   |-> [ dayOfWeek      |-> getDay(tz, cur),
                         isDoseDay      |-> isDoseDay,
                         protocolType   |-> p.type,
                         daysSinceStart |-> daysBetween(cur, p.startDate) ] ]

\* the row prisma.protocolEvent.create stores for currentDate, with the id the
\* store gives it
eventOf(id, p, prof, cur) ==
  LET isDoseDay == isDoseDayOf(p, cur)
  IN  [ id         |-> id,
        protocolId |-> p.id,
        date       |-> setUTCMidnight(cur),
        type       |-> IF isDoseDay THEN "dose" ELSE "pause",
        status     |-> "scheduled",
        substance  |-> IF isDoseDay THEN prof.substance ELSE NullString,
        dose       |-> IF isDoseDay THEN prof.calculatedDose ELSE NullDose,
        doseUnit   |-> IF isDoseDay THEN prof.doseUnit ELSE NullString,
        metadata   |-> [ dayOfWeek      |-> getDay(tz, cur),
                         isDoseDay      |-> isDoseDay,
                         protocolType   |-> p.type,
                         daysSinceStart |-> daysBetween(cur, p.startDate) ] ]

\* the protocol row built by the handler from an accepted request
protocolOf(id, req) ==
  LET startDate == setUTCMidnight(req.startDate)
      endDate   == setUTCEndOfDay(
                     setUTCDatePlus(startDate,
                                    ToIntegerOrInfinity(Times(req.cycleLength, Rat(7, 1)))))
  IN  [ id                   |-> id,
        userId               |-> UserId,
        type                 |-> req.type,
        status               |-> "active",
        startDate            |-> startDate,
        endDate              |-> endDate,
        cycleLength          |-> req.cycleLength,
        settings             |-> req.settings,
        notificationSettings |-> req.notificationSettings ]

\* 400 from the custom branch of the handler
customRejected(type, custom) ==
  /\ type = "custom"
  /\ \/ custom = NoCustom
     \/ Len(custom.doseDays) = 0
     \/ Len(custom.doseDays) > MaxDoseDays

\* d.setHours(h, m, 0, 0): that wall-clock time on the local day of t
setHours(z, t, time) ==
  UTCOfLocal(z, (LocalTime(z, t) \div MinutesPerDay) * MinutesPerDay
                  + time.hours * 60 + time.minutes)

\* generateProtocolNotifications with the reminder attached to every event
notificationsForAnyEvent(z, p, event) ==
  (IF p.notificationSettings.morningReminder.enabled
     THEN << [ userId       |-> p.userId,
               type         |-> "reminder",
               scheduledFor |-> setHours(z, event.date, p.notificationSettings.morningReminder.time),
               status       |-> "scheduled",
               metadata     |-> [ eventId    |-> event.id,
                                  protocolId |-> p.id,
                                  eventType  |-> event.type,
                                  substance  |-> event.substance,
                                  dose       |-> event.dose,
                                  doseUnit   |-> event.doseUnit ] ] >>
     ELSE <<>>)
  \o
  (IF event.type = "dose" /\ p.notificationSettings.eveningReflection.enabled
     THEN << [ userId       |-> p.userId,
               type         |-> "reflection",
               scheduledFor |-> setHours(z, event.date, p.notificationSettings.eveningReflection.time),
               status       |-> "scheduled",
               metadata     |-> [ eventId    |-> event.id,
                                  protocolId |-> p.id,
                                  eventType  |-> event.type ] ] >>
     ELSE <<>>)

\* the body of the loop of generateProtocolNotifications: the rows created for
\* one event, in creation order
notificationsFor(z, p, event) ==
  (IF event.type = "dose" /\ p.notificationSettings.morningReminder.enabled
     THEN << [ userId       |-> p.userId,
               type         |-> "reminder",
               scheduledFor |-> setHours(z, event.date, p.notificationSettings.morningReminder.time),
               status       |-> "scheduled",
               metadata     |-> [ eventId    |-> event.id,
                                  protocolId |-> p.id,
                                  eventType  |-> event.type,
                                  substance  |-> event.substance,
                                  dose       |-> event.dose,
                                  doseUnit   |-> event.doseUnit ] ] >>
     ELSE <<>>)
  \o
  (IF event.type = "dose" /\ p.notificationSettings.eveningReflection.enabled
     THEN << [ userId       |-> p.userId,
               type         |-> "reflection",
               scheduledFor |-> setHours(z, event.date, p.notificationSettings.eveningReflection.time),
               status       |-> "scheduled",
               metadata     |-> [ eventId    |-> event.id,
                                  protocolId |-> p.id,
                                  eventType  |-> event.type ] ] >>
     ELSE <<>>)

\* NotificationService.generateProtocolNotifications: the rows created for the
\* events, in creation order
RECURSIVE generateProtocolNotifications(_, _, _)
generateProtocolNotifications(z, p, evs) ==
  IF evs = <<>> THEN <<>>
  ELSE notificationsFor(z, p, Head(evs)) \o generateProtocolNotifications(z, p, Tail(evs))

\* the userActivity row of a created protocol
activityOf(req, p) ==
  [ userId   |-> UserId,
    type     |-> "protocol_created",
    metadata |-> [ protocolId   |-> p.id,
                   protocolType |-> req.type,
                   cycleLength  |-> req.cycleLength ] ]

Reject ==
  /\ status' = 400
  /\ pc' = "responded"
  /\ UNCHANGED <<protocol, events, currentDate, dayCount, notifications, activities>>

\* router.post('/create') up to prisma.protocol.create and the entry of
\* generateProtocolEvents
Create(req) ==
  /\ pc = "idle"
  /\ request' = req
  /\ IF profile = NoProfile
       THEN Reject
     ELSE IF ~schemaAccepts(req.type, req.cycleLength)
       THEN Reject
     ELSE IF customRejected(req.type, req.settings.custom)
       THEN Reject
     ELSE /\ protocol' = protocolOf(1, req)
          /\ events' = <<>>
          /\ currentDate' = protocol'.startDate
          /\ dayCount' = 0
          /\ pc' = "generating"
          /\ UNCHANGED <<status, notifications, activities>>
  /\ UNCHANGED <<tz, profile>>
  /\ UNCHANGED <<calcVars, otherVars>>

\* an iteration that writes its row over the row of the previous iteration
GenerateStepOverwriting ==
  /\ pc = "generating"
  /\ currentDate <= protocol.endDate
  /\ events' = IF events = <<>>
                 THEN <<eventOf(1, protocol, profile, currentDate)>>
                 ELSE [events EXCEPT ![Len(events)] =
                         eventOf(Len(events), protocol, profile, currentDate)]
  /\ currentDate' = setDateNextDay(tz, currentDate)
  /\ dayCount' = dayCount + 1
  /\ UNCHANGED <<tz, profile, pc, status, protocol, request, notifications, activities>>
  /\ UNCHANGED <<calcVars, otherVars>>

\* one iteration of the while loop of generateProtocolEvents
GenerateStep ==
  /\ pc = "generating"
  /\ currentDate <= protocol.endDate
  /\ events' = Append(events, eventOf(Len(events) + 1, protocol, profile, currentDate))
  /\ currentDate' = setDateNextDay(tz, currentDate)
  /\ dayCount' = dayCount + 1
  /\ UNCHANGED <<tz, profile, pc, status, protocol, request, notifications, activities>>
  /\ UNCHANGED <<calcVars, otherVars>>

\* the loop condition fails: generateProtocolEvents returns events
GenerateReturn ==
  /\ pc = "generating"
  /\ ~(currentDate <= protocol.endDate)
  /\ pc' = "generated"
  /\ UNCHANGED <<tz, profile, status, protocol, events, currentDate, dayCount,
                 request, notifications, activities>>
  /\ UNCHANGED <<calcVars, otherVars>>

\* router.post('/create'): the call of generateProtocolNotifications
Notify ==
  /\ pc = "generated"
  /\ notifications' = notifications \o generateProtocolNotifications(tz, protocol, events)
  /\ pc' = "notified"
  /\ UNCHANGED <<tz, profile, status, protocol, events, currentDate, dayCount,
                 request, activities>>
  /\ UNCHANGED <<calcVars, otherVars>>

\* router.post('/create'): prisma.userActivity.create and res.json
Respond ==
  /\ pc = "notified"
  /\ activities' = Append(activities, activityOf(request, protocol))
  /\ status' = 200
  /\ pc' = "responded"
  /\ UNCHANGED <<tz, profile, protocol, events, currentDate, dayCount,
                 request, notifications>>
  /\ UNCHANGED <<calcVars, otherVars>>

NoRow == [id |-> 0]

RoutesIdle ==
  /\ calcRequest = NoRequest
  /\ routePc = "off"
  /\ tempCalculation = NoRow

MultiIdle == runs = <<>> /\ eventTable = {}

NoHandler == [pc |-> "off"]

DeleteIdle ==
  /\ onDelete = "Restrict"
  /\ journalEntries = {}
  /\ deletion = NoHandler
  /\ journal = <<>>

RegisterIdle ==
  /\ users = {}
  /\ profileTable = {}
  /\ registrations = <<>>

StoreIdle == DeleteIdle /\ RegisterIdle

OtherIdle == MultiIdle /\ RoutesIdle /\ StoreIdle

CalcIdle ==
  /\ params = [gender |-> "none"]
  /\ calcPc = "off"
  /\ validation = [isValid |-> FALSE]
  /\ result = [threw |-> FALSE]

Init ==
  /\ tz \in TimeZones
  /\ profile \in Profiles \cup {NoProfile}
  /\ pc = "idle"
  /\ status = 0
  /\ request = NoRequest
  /\ protocol = NoProtocol
  /\ events = <<>>
  /\ notifications = <<>>
  /\ activities = <<>>
  /\ currentDate = 0
  /\ dayCount = 0
  /\ CalcIdle
  /\ OtherIdle

Next ==
  \/ /\ pc = "idle"
     /\ \E req \in Requests : Create(req)
  \/ GenerateStep
  \/ GenerateReturn
  \/ Notify
  \/ Respond

Spec == Init /\ [][Next]_vars

-----------------------------------------------------------------------------
(* MicrodoseCalculator (src/unnamed/part_001) and its tables                *)
(* (src/src/types/microdose.ts).                                            *)
(*                                                                         *)
(* Numbers are exact rationals: the model does not reproduce the rounding   *)
(* error of IEEE doubles.  A number field holds a rational, Undefined (the  *)
(* property is missing), NaN, or Inherited (a lookup in a table object that *)
(* found a member of Object.prototype, a function).  The unit the source    *)
(* writes with a micro sign is written "ug".                                *)

Substances == {"psilocybin", "lsd", "amanita", "ketamine"}
Goals      == {"sub_perceptual", "standard", "upper_microdose"}
Genders    == {"male", "female", "other"}

\* the table with the base dose of lsd ten times as high
BaseDosesLsdTenfold ==
  [ psilocybin |-> [baseDose |-> Rat(200, 1), unit |-> "mg"],
    lsd        |-> [baseDose |-> Rat(100, 1), unit |-> "ug"],
    amanita    |-> [baseDose |-> Rat(100, 1), unit |-> "mg"],
    ketamine   |-> [baseDose |-> Rat(10, 1),  unit |-> "mg"] ]

SUBSTANCE_BASE_DOSES ==
  [ psilocybin |-> [baseDose |-> Rat(200, 1), unit |-> "mg"],
    lsd        |-> [baseDose |-> Rat(10, 1),  unit |-> "ug"],
    amanita    |-> [baseDose |-> Rat(100, 1), unit |-> "mg"],
    ketamine   |-> [baseDose |-> Rat(10, 1),  unit |-> "mg"] ]

GOAL_FACTORS ==
  [ sub_perceptual  |-> Rat(1, 2),
    standard        |-> Rat(1, 1),
    upper_microdose |-> Rat(2, 1) ]

INTAKE_FORM_FACTORS ==
  [ dried_mushrooms |-> Rat(1, 1),
    fresh_mushrooms |-> Rat(10, 1),
    truffles        |-> Rat(2, 1),
    pure_extract    |-> Rat(1, 100),
    blotter         |-> Rat(1, 1),
    liquid          |-> Rat(1, 1),
    capsules        |-> Rat(1, 1),
    liquid_ketamine |-> Rat(1, 1) ]

\* the lookup with the multipliers of the lowest and the highest goal exchanged
goalFactorExchanged(goal) ==
  IF goal = "sub_perceptual" THEN GOAL_FACTORS["upper_microdose"]
  ELSE IF goal = "upper_microdose" THEN GOAL_FACTORS["sub_perceptual"]
  ELSE IF goal \in DOMAIN GOAL_FACTORS THEN GOAL_FACTORS[goal] ELSE UndefinedNum

\* GOAL_FACTORS[goal]: the entry, or undefined
goalFactorOf(goal) ==
  IF goal \in DOMAIN GOAL_FACTORS THEN GOAL_FACTORS[goal] ELSE UndefinedNum

\* names every object literal inherits from Object.prototype (two of them)
ObjectPrototypeKeys == {"constructor", "toString"}

\* INTAKE_FORM_FACTORS[intakeForm] || 1.0
intakeFormFactorOf(intakeForm) ==
  LET f == IF intakeForm \in DOMAIN INTAKE_FORM_FACTORS
             THEN INTAKE_FORM_FACTORS[intakeForm]
           ELSE IF intakeForm \in ObjectPrototypeKeys THEN Inherited
           ELSE UndefinedNum
  IN  IF NotNum(f) THEN Rat(1, 1) ELSE f

\* every substance rounded to a whole number
roundDoseWhole(substance, x) == MathRound(x)

\* substance === 'lsd' ? Math.round(x * 10) / 10 : Math.round(x)
roundDose(substance, x) ==
  IF substance = "lsd"
    THEN DivideBy(MathRound(Times(x, Rat(10, 1))), 10)
    ELSE MathRound(x)

\* generateRecommendations with the medication block ahead of the beginner block
generateRecommendationsMedicationFirst(p) ==
  <<"general_1", "general_2", "general_3">>
  \o (IF p.substance \in Substances
        THEN <<p.substance \o "_1", p.substance \o "_2">> ELSE <<>>)
  \o (IF ~NotStr(p.currentMedication) THEN <<"medication_1", "medication_2">> ELSE <<>>)
  \o (IF p.experience = "beginner" THEN <<"beginner_1", "beginner_2">> ELSE <<>>)

\* generateRecommendations: the advisories, named by block and position
generateRecommendations(p) ==
  <<"general_1", "general_2", "general_3">>
  \o (IF p.substance \in Substances
        THEN <<p.substance \o "_1", p.substance \o "_2">> ELSE <<>>)
  \o (IF p.experience = "beginner" THEN <<"beginner_1", "beginner_2">> ELSE <<>>)
  \o (IF ~NotStr(p.currentMedication) THEN <<"medication_1", "medication_2">> ELSE <<>>)

\* the outcome of a call that ends in a TypeError
Thrown == [threw |-> TRUE]

\* weight / 70 with the weight capped at 200
weightFactorCapped(weight) ==
  IF Greater(weight, Rat(200, 1)) THEN DivideBy(Rat(200, 1), 70) ELSE DivideBy(weight, 70)

\* 70 / weight
weightFactorReciprocal(weight) ==
  IF ~IsNum(weight) \/ weight.n = 0 THEN weight ELSE Rat(70 * weight.d, weight.n)

\* weight / 70
weightFactorOf(weight) == DivideBy(weight, 70)

\* the product without the intake-form factor
rawDoseWithoutIntakeForm(baseDose, weightFactor, sensitivityFactor, goalFactor, intakeFormFactor) ==
  Times(Times(Times(baseDose, weightFactor), sensitivityFactor), goalFactor)

\* baseDose * weightFactor * sensitivityFactor * goalFactor * intakeFormFactor
rawDose(baseDose, weightFactor, sensitivityFactor, goalFactor, intakeFormFactor) ==
  Times(Times(Times(Times(baseDose, weightFactor), sensitivityFactor),
              goalFactor), intakeFormFactor)

\* MicrodoseCalculator.calculate
calculate(p) ==
  IF p.substance \notin DOMAIN SUBSTANCE_BASE_DOSES
    THEN Thrown    \* substanceData is undefined: substanceData.baseDose throws
  ELSE
    LET substanceData     == SUBSTANCE_BASE_DOSES[p.substance]
        baseDose          == substanceData.baseDose
        weightFactor      == weightFactorOf(p.weight)
        sensitivityFactor == p.sensitivity
        goalFactor        == goalFactorOf(p.goal)
        intakeFormFactor  == intakeFormFactorOf(p.intakeForm)
        calculatedDose    == rawDose(baseDose, weightFactor, sensitivityFactor,
                                     goalFactor, intakeFormFactor)
        roundedDose       == roundDose(p.substance, calculatedDose)
    IN  IF \/ sensitivityFactor = UndefinedNum
           \/ goalFactor = UndefinedNum
           \/ intakeFormFactor = Inherited
          THEN Thrown    \* generateExplanation: x.toFixed is not a function
        ELSE [ threw             |-> FALSE,
               calculatedDose    |-> roundedDose,
               doseUnit          |-> substanceData.unit,
               baseDose          |-> baseDose,
               weightFactor      |-> weightFactor,
               sensitivityFactor |-> sensitivityFactor,
               goalFactor        |-> goalFactor,
               intakeFormFactor  |-> intakeFormFactor,
               explanation       |-> [ substance |-> p.substance,
                                       unit      |-> IF p.substance = "lsd"
                                                       THEN "ug" ELSE "mg",
                                       finalDose |-> roundedDose ],
               recommendations   |-> generateRecommendations(p) ]

\* validateParams: the errors array after the six checks
validationErrors(p) ==
        (IF NotStr(p.gender) \/ p.gender \notin Genders
           THEN <<"Geschlecht ist erforderlich">> ELSE <<>>)
        \o (IF NotNum(p.weight) \/ Less(p.weight, Rat(30, 1)) \/ Greater(p.weight, Rat(200, 1))
              THEN <<"Gewicht muss zwischen 30 und 200 kg liegen">> ELSE <<>>)
        \o (IF NotStr(p.substance) \/ p.substance \notin Substances
              THEN <<"Substanz ist erforderlich">> ELSE <<>>)
        \o (IF NotStr(p.intakeForm)
              THEN <<"Einnahmeform ist erforderlich">> ELSE <<>>)
        \o (IF NotNum(p.sensitivity) \/ Less(p.sensitivity, Rat(3, 10))
                 \/ Greater(p.sensitivity, Rat(2, 1))
              THEN <<"Empfindlichkeit muss zwischen 0.3 und 2.0 liegen">> ELSE <<>>)
        \o (IF NotStr(p.goal) \/ p.goal \notin Goals
              THEN <<"Ziel ist erforderlich">> ELSE <<>>)

\* validateParams returning at the first failed check
validateParamsFirstOnly(p) ==
  LET errors == validationErrors(p)
  IN  [isValid |-> Len(errors) = 0, errors |-> SubSeq(errors, 1, 1)]

\* MicrodoseCalculator.validateParams
validateParams(p) ==
  LET errors == validationErrors(p)
  IN  [isValid |-> Len(errors) = 0, errors |-> errors]

-----------------------------------------------------------------------------
(* The calculator applied to parameter records *)

\* weights offered: 25, 30, ... 25 + 5 * WeightSteps kg, and two fractional ones
CalcWeights ==
  {Rat(25 + 5 * k, 1) : k \in 0..WeightSteps} \cup {Rat(145, 2), Rat(613, 10)}

\* sensitivities offered: 0.2, 0.3, ... (2 + SensSteps) / 10
CalcSensitivities == {Rat(2 + k, 10) : k \in 0..SensSteps}

\* records over the grid of weights and sensitivities, with every intake form of
\* the table, one that is in no table and one that names a member of
\* Object.prototype (substance and goal are offered no such name)
CalcParams ==
  [ gender            : {"female"},
    weight            : CalcWeights,
    substance         : Substances,
    intakeForm        : DOMAIN INTAKE_FORM_FACTORS \cup {"elixir", "constructor"},
    sensitivity       : CalcSensitivities,
    goal              : Goals,
    experience        : {Missing},
    currentMedication : {Missing} ]

\* records around the edges of every domain validateParams checks
ValidationParams ==
  [ gender            : {"male", "robot", "", Missing},
    weight            : {UndefinedNum, Rat(0, 1), Rat(299, 10), Rat(30, 1),
                         Rat(200, 1), Rat(2001, 10)},
    substance         : {"lsd", "mdma", Missing},
    intakeForm        : {"blotter", "", Missing},
    sensitivity       : {UndefinedNum, Rat(0, 1), Rat(29, 100), Rat(3, 10),
                         Rat(2, 1), Rat(201, 100)},
    goal              : {"standard", "heroic", Missing},
    experience        : {Missing},
    currentMedication : {Missing} ]

\* records over the fields generateRecommendations reads
RecommendationParams ==
  [ gender            : {"other"},
    weight            : {Rat(70, 1)},
    substance         : Substances,
    intakeForm        : {"capsules"},
    sensitivity       : {Rat(1, 1)},
    goal              : {"standard"},
    experience        : {Missing, "beginner", "intermediate", "experienced"},
    currentMedication : {Missing, "", "SSRI"} ]

ParamSet == CalcParams \cup ValidationParams \cup RecommendationParams

\* validateParams(params) is called
Validate ==
  /\ calcPc = "input"
  /\ validation' = validateParams(params)
  /\ calcPc' = "validated"
  /\ UNCHANGED <<params, result>>
  /\ UNCHANGED <<protoVars, otherVars>>

\* calculate(params) is called; the function itself checks nothing
Calculate ==
  /\ calcPc = "validated"
  /\ result' = calculate(params)
  /\ calcPc' = "calculated"
  /\ UNCHANGED <<params, validation>>
  /\ UNCHANGED <<protoVars, otherVars>>

ProtoIdle ==
  /\ tz = CHOOSE z \in TimeZones : z.name = "UTC"
  /\ profile = NoProfile
  /\ pc = "off"
  /\ status = 0
  /\ request = NoRequest
  /\ protocol = NoProtocol
  /\ events = <<>>
  /\ notifications = <<>>
  /\ activities = <<>>
  /\ currentDate = 0
  /\ dayCount = 0

InitCalc ==
  /\ params \in ParamSet
  /\ calcPc = "input"
  /\ validation = [isValid |-> FALSE]
  /\ result = [threw |-> FALSE]
  /\ ProtoIdle
  /\ OtherIdle

NextCalc == Validate \/ Calculate

SpecCalc == InitCalc /\ [][NextCalc]_vars

-----------------------------------------------------------------------------
(* POST /api/microdose/calculate-temporary and POST /api/microdose/save-profile *)
(* (src/src/modules/microdose/routes.ts)                                      *)

Experiences == {"beginner", "intermediate", "experienced"}

\* the schema with the upper bound of weight at 250
calculationSchemaAcceptsTo250(b) ==
  /\ b.gender \in Genders
  /\ IsNum(b.weight)
  /\ ~Less(b.weight, Rat(30, 1)) /\ ~Greater(b.weight, Rat(250, 1))
  /\ b.substance \in Substances
  /\ b.intakeForm # Missing /\ Len(b.intakeForm) >= 1
  /\ \/ b.sensitivity = UndefinedNum
     \/ /\ IsNum(b.sensitivity)
        /\ ~Less(b.sensitivity, Rat(3, 10)) /\ ~Greater(b.sensitivity, Rat(2, 1))
  /\ b.goal \in Goals
  /\ b.experience \in Experiences \cup {Missing, ""}

\* microdoseCalculationSchema.parse does not throw; a missing sensitivity is
\* given the default, an empty string is let through for the optional fields
calculationSchemaAccepts(b) ==
  /\ b.gender \in Genders
  /\ IsNum(b.weight)
  /\ ~Less(b.weight, Rat(30, 1)) /\ ~Greater(b.weight, Rat(200, 1))
  /\ b.substance \in Substances
  /\ b.intakeForm # Missing /\ Len(b.intakeForm) >= 1
  /\ \/ b.sensitivity = UndefinedNum
     \/ /\ IsNum(b.sensitivity)
        /\ ~Less(b.sensitivity, Rat(3, 10)) /\ ~Greater(b.sensitivity, Rat(2, 1))
  /\ b.goal \in Goals
  /\ b.experience \in Experiences \cup {Missing, ""}

\* the value microdoseCalculationSchema.parse returns
parsed(b) ==
  [b EXCEPT !.sensitivity = IF @ = UndefinedNum THEN Rat(1, 1) ELSE @]

\* calculate-temporary: 'Convert empty strings to undefined for optional fields'
emptyToUndefined(p) ==
  [p EXCEPT !.experience        = IF @ = "" THEN Missing ELSE @,
            !.currentMedication = IF @ = "" THEN Missing ELSE @]

\* the columns the upsert of either route writes
calculationRow(p, r) ==
  [ gender            |-> p.gender,
    weight            |-> p.weight,
    substance         |-> p.substance,
    intakeForm        |-> p.intakeForm,
    sensitivity       |-> p.sensitivity,
    goal              |-> p.goal,
    calculatedDose    |-> r.calculatedDose,
    doseUnit          |-> r.doseUnit,
    experience        |-> p.experience,
    currentMedication |-> p.currentMedication ]

\* a temporaryCalculation row stored by an earlier request of the session
EarlierTempCalculation ==
  [ gender |-> "other", weight |-> Rat(55, 1), substance |-> "amanita",
    intakeForm |-> "capsules", sensitivity |-> Rat(1, 1), goal |-> "standard",
    calculatedDose |-> Rat(79, 1), doseUnit |-> "mg",
    experience |-> Missing, currentMedication |-> Missing ]

\* bodies with a field the schema checks and validateParams does not
ExperienceParams ==
  [ gender            : {"female"},
    weight            : {Rat(70, 1)},
    substance         : {"psilocybin"},
    intakeForm        : {"truffles", "constructor"},
    sensitivity       : {UndefinedNum, Rat(1, 1)},
    goal              : {"sub_perceptual"},
    experience        : {"guru", "", "beginner"},
    currentMedication : {Missing, ""} ]

\* req.body of the requests offered to the two routes
CalculationBodies == ValidationParams \cup RecommendationParams \cup ExperienceParams

\* the requests offered: calculate-temporary with and without a session id,
\* save-profile by an authenticated user
CalculationRequests ==
  { [route |-> "calculate-temporary", body |-> b, sessionId |-> sid] :
      b \in CalculationBodies, sid \in {"session", Missing} }
  \cup { [route |-> "save-profile", body |-> b, sessionId |-> Missing] :
           b \in CalculationBodies }

RouteRespond(code) ==
  /\ status' = code
  /\ routePc' = "responded"

\* a handler that goes on without the schema
RouteParseUnchecked(r) ==
  /\ routePc = "idle"
  /\ calcRequest' = r
  /\ IF r.route = "calculate-temporary" /\ NotStr(r.sessionId)
       THEN RouteRespond(400) /\ UNCHANGED params
     ELSE /\ params' = IF r.route = "calculate-temporary"
                         THEN emptyToUndefined(parsed(r.body)) ELSE parsed(r.body)
          /\ routePc' = "parsed"
          /\ UNCHANGED status
  /\ UNCHANGED <<calcPc, validation, result, multiVars, storeVars, tempCalculation>>
  /\ UNCHANGED <<tz, profile, pc, request, protocol, events, notifications,
                 activities, currentDate, dayCount>>

\* both routes up to the call of validateParams: microdoseCalculationSchema.parse
\* (a ZodError is answered 400) and, in calculate-temporary, the session id
RouteParse(r) ==
  /\ routePc = "idle"
  /\ calcRequest' = r
  /\ IF ~calculationSchemaAccepts(r.body)
       THEN RouteRespond(400) /\ UNCHANGED params
     ELSE IF r.route = "calculate-temporary" /\ NotStr(r.sessionId)
       THEN RouteRespond(400) /\ UNCHANGED params
     ELSE /\ params' = IF r.route = "calculate-temporary"
                         THEN emptyToUndefined(parsed(r.body)) ELSE parsed(r.body)
          /\ routePc' = "parsed"
          /\ UNCHANGED status
  /\ UNCHANGED <<calcPc, validation, result, multiVars, storeVars, tempCalculation>>
  /\ UNCHANGED <<tz, profile, pc, request, protocol, events, notifications,
                 activities, currentDate, dayCount>>

\* both routes: validateParams, and 400 with its errors
RouteValidate ==
  /\ routePc = "parsed"
  /\ validation' = validateParams(params)
  /\ IF ~validation'.isValid
       THEN RouteRespond(400)
       ELSE routePc' = "validated" /\ UNCHANGED status
  /\ UNCHANGED <<params, calcPc, result, multiVars, storeVars, calcRequest, tempCalculation>>
  /\ UNCHANGED <<tz, profile, pc, request, protocol, events, notifications,
                 activities, currentDate, dayCount>>

\* both routes: calculate; an error it throws goes to next(error) and is
\* answered 500 by errorHandler
RouteCalculate ==
  /\ routePc = "validated"
  /\ result' = calculate(params)
  /\ IF result'.threw
       THEN RouteRespond(500)
       ELSE routePc' = "calculated" /\ UNCHANGED status
  /\ UNCHANGED <<params, calcPc, validation, multiVars, storeVars, calcRequest, tempCalculation>>
  /\ UNCHANGED <<tz, profile, pc, request, protocol, events, notifications,
                 activities, currentDate, dayCount>>

\* both routes: the upsert (temporaryCalculation by sessionId, microdoseProfile
\* by userId) and res.json
RouteUpsert ==
  /\ routePc = "calculated"
  /\ IF calcRequest.route = "calculate-temporary"
       THEN /\ tempCalculation' = calculationRow(params, result)
            /\ UNCHANGED profile
       ELSE /\ profile' = calculationRow(params, result)
            /\ UNCHANGED tempCalculation
  /\ RouteRespond(200)
  /\ UNCHANGED <<params, calcPc, validation, result, multiVars, storeVars, calcRequest>>
  /\ UNCHANGED <<tz, pc, request, protocol, events, notifications,
                 activities, currentDate, dayCount>>

InitRoutes ==
  /\ tz = CHOOSE z \in TimeZones : z.name = "UTC"
  /\ profile \in Profiles \cup {NoProfile}
  /\ pc = "off"
  /\ status = 0
  /\ request = NoRequest
  /\ protocol = NoProtocol
  /\ events = <<>>
  /\ notifications = <<>>
  /\ activities = <<>>
  /\ currentDate = 0
  /\ dayCount = 0
  /\ CalcIdle
  /\ MultiIdle
  /\ StoreIdle
  /\ calcRequest = NoRequest
  /\ routePc = "idle"
  /\ tempCalculation \in {NoRow, EarlierTempCalculation}

NextRoutes ==
  \/ /\ routePc = "idle"
     /\ \E r \in CalculationRequests : RouteParse(r)
  \/ RouteValidate
  \/ RouteCalculate
  \/ RouteUpsert

SpecRoutes == InitRoutes /\ [][NextRoutes]_vars

-----------------------------------------------------------------------------
(* Concurrent requests to POST /api/protocol/create: each call of            *)
(* generateProtocolEvents has its own startDate, endDate, currentDate,       *)
(* dayCount and events array; the calls share the protocolEvent table and    *)
(* the host.  A call gives up control at each await, i.e. once per iteration *)
(* of its loop, at prisma.protocolEvent.create.                              *)

\* the requests being handled at the same time
Callers == {1, 2}

\* the start day offered to concurrent requests: the day before the clock changes
MultiStartDays == {2}

\* the requests offered to concurrent callers: accepted ones of the shortest
\* cycle length, of every type and time of day
MultiRequests ==
  { body(type, day * MinutesPerDay + time, Rat(MinCycleLength, 1), custom, MorningOnly) :
      type \in {"fadiman", "stamets"}, day \in MultiStartDays, time \in StartTimes,
      custom \in {NoCustom} }
  \cup
  { body("custom", day * MinutesPerDay + time, Rat(MinCycleLength, 1), custom, MorningOnly) :
      day \in MultiStartDays, time \in StartTimes, custom \in {[doseDays |-> <<1, 3, 5>>]} }

IdleRun == [pc |-> "idle"]

\* the id the store gives the row a caller creates in an iteration: fresh, and
\* the same whatever other rows exist
freshId(r, n) == <<r, n>>

\* generateProtocolEvents(p, prof) as a function: the events array a call returns
\* when it runs from cur with dayCount n and nothing else runs
generateProtocolEvents(p, prof, cur, n) ==
  LET loop[d \in Int, k \in Nat] ==
        IF d <= p.endDate
          THEN <<eventOf(freshId(p.id, k), p, prof, d)>>
                 \o loop[setDateNextDay(tz, d), k + 1]
          ELSE <<>>
  IN  loop[cur, n]

\* the handler of caller r: prisma.protocol.create and the entry of
\* generateProtocolEvents (the protocol row gets an id of its own)
MultiCreate(r, req) ==
  /\ runs[r].pc = "idle"
  /\ profile # NoProfile
  /\ schemaAccepts(req.type, req.cycleLength)
  /\ ~customRejected(req.type, req.settings.custom)
  /\ runs' = [runs EXCEPT ![r] =
                [ pc          |-> "generating",
                  request     |-> req,
                  protocol    |-> protocolOf(r, req),
                  currentDate |-> protocolOf(r, req).startDate,
                  dayCount    |-> 0,
                  events      |-> <<>> ]]
  /\ UNCHANGED <<eventTable, protoVars, calcVars, routeVars, storeVars>>

\* an iteration of the loop that reads and advances a currentDate which all
\* calls share
MultiStepSharedDate(r) ==
  /\ runs[r].pc = "generating"
  /\ runs[r].currentDate <= runs[r].protocol.endDate
  /\ LET cur   == IF currentDate = 0 THEN runs[r].currentDate ELSE currentDate
         event == eventOf(freshId(r, runs[r].dayCount), runs[r].protocol, profile, cur)
     IN  /\ eventTable' = eventTable \cup {event}
         /\ currentDate' = setDateNextDay(tz, cur)
         /\ runs' = [runs EXCEPT ![r].events      = Append(@, event),
                                 ![r].currentDate = setDateNextDay(tz, cur),
                                 ![r].dayCount    = @ + 1]
  /\ UNCHANGED <<tz, profile, pc, status, request, protocol, events, notifications,
                 activities, dayCount>>
  /\ UNCHANGED <<calcVars, routeVars, storeVars>>

\* one iteration of the while loop of generateProtocolEvents in the call of
\* caller r: the row is created in the shared table and pushed to the call's
\* own events array
MultiStep(r) ==
  /\ runs[r].pc = "generating"
  /\ runs[r].currentDate <= runs[r].protocol.endDate
  /\ LET event == eventOf(freshId(r, runs[r].dayCount), runs[r].protocol, profile,
                          runs[r].currentDate)
     IN  /\ eventTable' = eventTable \cup {event}
         /\ runs' = [runs EXCEPT ![r].events      = Append(@, event),
                                 ![r].currentDate = setDateNextDay(tz, @),
                                 ![r].dayCount    = @ + 1]
  /\ UNCHANGED <<protoVars, calcVars, routeVars, storeVars>>

\* the loop condition of caller r's call fails: it returns its events array
MultiReturn(r) ==
  /\ runs[r].pc = "generating"
  /\ ~(runs[r].currentDate <= runs[r].protocol.endDate)
  /\ runs' = [runs EXCEPT ![r].pc = "generated"]
  /\ UNCHANGED <<eventTable, protoVars, calcVars, routeVars, storeVars>>

InitMulti ==
  /\ tz \in TimeZones
  /\ profile \in Profiles
  /\ pc = "off"
  /\ status = 0
  /\ request = NoRequest
  /\ protocol = NoProtocol
  /\ events = <<>>
  /\ notifications = <<>>
  /\ activities = <<>>
  /\ currentDate = 0
  /\ dayCount = 0
  /\ CalcIdle
  /\ RoutesIdle
  /\ StoreIdle
  /\ runs = [r \in Callers |-> IdleRun]
  /\ eventTable = {}

NextMulti ==
  \E r \in Callers :
    \/ /\ runs[r].pc = "idle"
       /\ \E req \in MultiRequests : MultiCreate(r, req)
    \/ MultiStep(r)
    \/ MultiReturn(r)

SpecMulti == InitMulti /\ [][NextMulti]_vars

-----------------------------------------------------------------------------
(* Claims about generateProtocolEvents *)

\* the weekday of an event's stored date (a UTC midnight)
StoredWeekday(e) == WeekdayOfDay(e.date \div MinutesPerDay)

\* the set of weekdays a doseDays array lists
DoseDaySet(p) == {p.settings.custom.doseDays[i] : i \in DOMAIN p.settings.custom.doseDays}

\* C1: once generateProtocolEvents has returned, the protocol has exactly
\* 7 * cycleLength + 1 events, and the event at position i (from 0) is dated
\* startDate + i days: ascending, one day apart, no gap, no duplicate.
C1_OneEventPerDay ==
  pc = "generated" =>
    /\ protocol.cycleLength.d * Len(events) = 7 * protocol.cycleLength.n + protocol.cycleLength.d
    /\ \A i \in DOMAIN events :
         events[i].date = protocol.startDate + (i - 1) * MinutesPerDay

\* C2: in a fadiman protocol the event at position i (from 0) is a dose event
\* exactly when i mod 3 = 0.
C2_FadimanByPosition ==
  (pc = "generated" /\ protocol.type = "fadiman") =>
    \A i \in DOMAIN events : (events[i].type = "dose") <=> ((i - 1) % 3 = 0)

\* C3: in a stamets protocol the event at position i (from 0) is a dose event
\* exactly when i mod 7 < 4.
C3_StametsByPosition ==
  (pc = "generated" /\ protocol.type = "stamets") =>
    \A i \in DOMAIN events : (events[i].type = "dose") <=> ((i - 1) % 7 < 4)

\* C4: in a custom protocol an event is a dose event exactly when the weekday of
\* its own stored date is one of settings.custom.doseDays.
C4_CustomByStoredWeekday ==
  (pc = "generated" /\ protocol.type = "custom") =>
    \A i \in DOMAIN events :
      (events[i].type = "dose") <=> (StoredWeekday(events[i]) \in DoseDaySet(protocol))

-----------------------------------------------------------------------------
(* Claims about MicrodoseCalculator *)

\* a <= b for numbers
LessEq(a, b) == a.n * b.d <= b.n * a.d

\* c is x rounded half-up to a multiple of 1/scale: c * scale is an integer k
\* with k <= x * scale + 1/2 < k + 1
HalfUpAt(c, x, scale) ==
  /\ IsNum(c) /\ IsNum(x)
  /\ (c.n * scale) % c.d = 0
  /\ LET k == (c.n * scale) \div c.d
     IN  /\ 2 * k * x.d <= 2 * scale * x.n + x.d
         /\ 2 * scale * x.n + x.d < (2 * k + 2) * x.d

\* the product of the factor fields of a result record
ProductOfFactors(r) ==
  Rat(r.baseDose.n * r.weightFactor.n * r.sensitivityFactor.n * r.goalFactor.n
        * r.intakeFormFactor.n,
      r.baseDose.d * r.weightFactor.d * r.sensitivityFactor.d * r.goalFactor.d
        * r.intakeFormFactor.d)

Returned == calcPc = "calculated" /\ ~result.threw

\* C5: a returned result has baseDose = the table's value for the substance,
\* weightFactor = weight / 70, sensitivityFactor = sensitivity, goalFactor = the
\* table's multiplier of the goal, and calculatedDose = the product of the factor
\* fields of the same result, rounded half-up at the substance's precision
\* (tenths for lsd, units otherwise).
C5_DoseIsRoundedProductOfFactors ==
  (Returned /\ IsNum(params.weight)) =>
    /\ result.baseDose = SUBSTANCE_BASE_DOSES[params.substance].baseDose
    /\ result.weightFactor = Rat(params.weight.n, params.weight.d * 70)
    /\ result.sensitivityFactor = params.sensitivity
    /\ result.goalFactor = GOAL_FACTORS[params.goal]
    /\ HalfUpAt(result.calculatedDose, ProductOfFactors(result),
                IF params.substance = "lsd" THEN 10 ELSE 1)

\* a result whose intake-form and weight factors both differ from 1
C5_Witness ==
  /\ Returned
  /\ result.intakeFormFactor = Rat(1, 100)
  /\ result.weightFactor = Rat(3, 2)
  /\ result.calculatedDose = Rat(3, 1)

\* C6: for parameters validateParams accepts, calculatedDose >= 0, and it is the
\* raw product rounded half-up to tenths when doseUnit is the microgram unit and
\* to units when doseUnit is mg.
C6_RoundingAgreesWithUnit ==
  (Returned /\ validation.isValid) =>
    /\ result.calculatedDose.n >= 0
    /\ result.doseUnit \in {"ug", "mg"}
    /\ result.doseUnit = "ug" =>
         HalfUpAt(result.calculatedDose, ProductOfFactors(result), 10)
    /\ result.doseUnit = "mg" =>
         HalfUpAt(result.calculatedDose, ProductOfFactors(result), 1)

\* the second reference example: 35 kg, lsd, blotter, 1.0, sub_perceptual -> 2.5 ug
C6_Witness ==
  /\ Returned /\ validation.isValid
  /\ result.doseUnit = "ug"
  /\ ProductOfFactors(result) = Rat(5, 2)
  /\ result.calculatedDose = Rat(5, 2)

\* the calculated dose of the state's parameters with the goal replaced
DoseWithGoal(g) == calculate([params EXCEPT !.goal = g]).calculatedDose

GoalCase == Returned /\ validation.isValid /\ params.goal = "standard"

\* C7 as stated: with the other parameters fixed and valid,
\* dose(sub_perceptual) < dose(standard) < dose(upper_microdose).
C7_StrictGoalOrder ==
  GoalCase =>
    /\ Less(DoseWithGoal("sub_perceptual"), result.calculatedDose)
    /\ Less(result.calculatedDose, DoseWithGoal("upper_microdose"))

\* C7 as amended: with the other parameters fixed and valid,
\* dose(sub_perceptual) <= dose(standard) <= dose(upper_microdose).
C7_GoalOrder ==
  GoalCase =>
    /\ LessEq(DoseWithGoal("sub_perceptual"), result.calculatedDose)
    /\ LessEq(result.calculatedDose, DoseWithGoal("upper_microdose"))

\* rounding makes two goals share a dose: ketamine, 30 kg, 0.3 gives 1 mg for
\* sub_perceptual (0.64) and standard (1.29), 3 mg for upper_microdose
C7_Witness ==
  /\ GoalCase
  /\ params.substance = "ketamine"
  /\ DoseWithGoal("sub_perceptual") = result.calculatedDose
  /\ Less(result.calculatedDose, DoseWithGoal("upper_microdose"))

\* the result for the state's parameters with the weight replaced
ResultWithWeight(w) == calculate([params EXCEPT !.weight = w])

Double(x) == Rat(2 * x.n, x.d)

\* |a - b| for numbers
Distance(a, b) == Rat(Abs(a.n * b.d - b.n * a.d), a.d * b.d)

WeightCase == Returned /\ IsNum(params.weight)

\* C8 as stated: doubling the weight doubles calculatedDose.
C8_DoublingDoublesDose ==
  WeightCase =>
    ResultWithWeight(Double(params.weight)).calculatedDose
      = Double(result.calculatedDose)

\* C8 as amended: doubling the weight doubles weightFactor and the raw product;
\* calculatedDose for 2w is within one rounding step (0.1 for lsd, 1 otherwise)
\* of twice calculatedDose for w.
C8_DoublingWithinOneStep ==
  WeightCase =>
    LET twice == ResultWithWeight(Double(params.weight))
    IN  /\ ~twice.threw
        /\ twice.weightFactor = Double(result.weightFactor)
        /\ ProductOfFactors(twice) = Double(ProductOfFactors(result))
        /\ LessEq(Distance(twice.calculatedDose, Double(result.calculatedDose)),
                  IF params.substance = "lsd" THEN Rat(1, 10) ELSE Rat(1, 1))

\* psilocybin, dried, 1.0, standard: 30 kg gives 86 mg (85.7), 60 kg gives 171 mg
C8_Witness ==
  /\ WeightCase
  /\ params.weight = Rat(30, 1)
  /\ result.calculatedDose = Rat(86, 1)
  /\ ResultWithWeight(Double(params.weight)).calculatedDose = Rat(171, 1)

\* the messages of validateParams in the order of its checks
FieldMessages ==
  << "Geschlecht ist erforderlich",
     "Gewicht muss zwischen 30 und 200 kg liegen",
     "Substanz ist erforderlich",
     "Einnahmeform ist erforderlich",
     "Empfindlichkeit muss zwischen 0.3 und 2.0 liegen",
     "Ziel ist erforderlich" >>

\* x is a number of the inclusive range [lo, hi]
InRange(x, lo, hi) == IsNum(x) /\ LessEq(lo, x) /\ LessEq(x, hi)

\* whether each field of a record violates its domain, in the order of the messages
FieldViolations(p) ==
  << p.gender \notin {"male", "female", "other"},
     ~InRange(p.weight, Rat(30, 1), Rat(200, 1)),
     p.substance \notin {"psilocybin", "lsd", "amanita", "ketamine"},
     p.intakeForm \in {"", Missing},
     ~InRange(p.sensitivity, Rat(3, 10), Rat(2, 1)),
     p.goal \notin {"sub_perceptual", "standard", "upper_microdose"} >>

Validated == calcPc \in {"validated", "calculated"}

SubstanceForms ==
  [ psilocybin |-> {"dried_mushrooms", "fresh_mushrooms", "truffles", "pure_extract"},
    lsd        |-> {"blotter", "liquid"},
    amanita    |-> {"capsules"},
    ketamine   |-> {"liquid_ketamine"} ]

\* C10: for a substance and goal of the enums and numeric weight and sensitivity,
\* calculate raises no error, and intakeFormFactor is the table's multiplier when
\* the intake form is one of the given substance's forms and 1.0 when it is not a
\* form of that substance.
C10_FactorOnlyForOwnForms ==
  ( /\ calcPc = "calculated"
    /\ params.substance \in Substances /\ params.goal \in Goals
    /\ IsNum(params.weight) /\ IsNum(params.sensitivity) ) =>
    /\ ~result.threw
    /\ result.intakeFormFactor =
         IF params.intakeForm \in SubstanceForms[params.substance]
           THEN INTAKE_FORM_FACTORS[params.intakeForm]
           ELSE Rat(1, 1)

-----------------------------------------------------------------------------
(* Claims about POST /api/protocol/create *)

\* nothing has been written to the store
StoreEmpty ==
  /\ protocol = NoProtocol
  /\ events = <<>>
  /\ notifications = <<>>
  /\ activities = <<>>

\* the request has been taken up by a user with a profile and passes the schema
Handled ==
  /\ pc # "idle"
  /\ profile # NoProfile
  /\ schemaAccepts(request.type, request.cycleLength)

\* settings.custom of the request lists between 1 and MaxDoseDays weekdays
DoseDaySetAllowed ==
  /\ request.settings.custom # NoCustom
  /\ DoseDaySet(request) # {}
  /\ DoseDaySet(request) \subseteq Weekdays
  /\ Cardinality(DoseDaySet(request)) <= MaxDoseDays

\* C11: a custom request (of a user with a profile, passing the schema) is
\* accepted, i.e. its protocol is stored, exactly when settings.custom is present
\* and the set of weekdays it lists is non-empty and has at most 4 members; when
\* it is not, the response is 400 and nothing is stored: no protocol, event,
\* notification or activity.
C11_CustomAcceptedIffDoseDaySetAllowed ==
  (Handled /\ request.type = "custom") =>
    /\ DoseDaySetAllowed <=> (protocol # NoProtocol)
    /\ ~DoseDaySetAllowed => (pc = "responded" /\ status = 400 /\ StoreEmpty)

\* cycleLength of the request is a whole number of weeks in 2..6
WholeWeeksInRange ==
  /\ request.cycleLength.d = 1
  /\ request.cycleLength.n >= MinCycleLength
  /\ request.cycleLength.n <= MaxCycleLength

\* C12: a request (of a user with a profile) whose cycleLength is below 2, above 6
\* or not a whole number is answered 400 and stores no protocol and no event, and
\* every stored protocol has 7 * cycleLength a whole number of days.
C12_CycleLengthWholeWeeks ==
  (pc # "idle" /\ profile # NoProfile) =>
    /\ ~WholeWeeksInRange =>
         (pc = "responded" /\ status = 400 /\ protocol = NoProtocol /\ events = <<>>)
    /\ protocol # NoProtocol =>
         (7 * protocol.cycleLength.n) % protocol.cycleLength.d = 0

\* C13: every stored event of type dose carries the profile's substance,
\* calculatedDose and doseUnit, every event of type pause has null in all three
\* columns, and there is no other type of event.
C13_DoseFieldsByType ==
  \A i \in DOMAIN events :
    /\ events[i].type \in {"dose", "pause"}
    /\ events[i].type = "dose" =>
         /\ events[i].substance = profile.substance
         /\ events[i].dose = profile.calculatedDose
         /\ events[i].doseUnit = profile.doseUnit
    /\ events[i].type = "pause" =>
         /\ events[i].substance = NullString
         /\ events[i].dose = NullDose
         /\ events[i].doseUnit = NullString

\* a stamets schedule of an lsd profile has been generated: dose and pause events
C13_Witness ==
  /\ pc = "generated"
  /\ protocol.type = "stamets"
  /\ profile.substance = "lsd"
  /\ \E i, j \in DOMAIN events :
       /\ events[i].type = "dose" /\ events[i].dose = Rat(5, 2) /\ events[i].doseUnit = "ug"
       /\ events[j].type = "pause" /\ events[j].dose = NullDose

-----------------------------------------------------------------------------
(* Claims about the calculator routes *)

\* validation of the request's parameters has reported an error: parse threw a
\* ZodError, or validateParams returned errors
ValidationReportsError ==
  \/ ~calculationSchemaAccepts(calcRequest.body)
  \/ /\ validation # [isValid |-> FALSE]
     /\ Len(validation.errors) > 0

\* C14: in calculate-temporary and save-profile, when validation of the
\* parameters has reported an error, the response is 400, calculate has not been
\* called, and the temporaryCalculation and microdoseProfile rows are the ones
\* stored before the request (or still absent).
C14_NoCalculationOfInvalidInput ==
  (calcRequest # NoRequest /\ ValidationReportsError) =>
    /\ routePc = "responded"
    /\ status = 400
    /\ result = [threw |-> FALSE]
    /\ tempCalculation \in {NoRow, EarlierTempCalculation}
    /\ profile \in Profiles \cup {NoProfile}

\* save-profile has answered 400 to a body whose weight is in range and whose
\* experience is outside the enum, with a profile stored before
C14_Witness ==
  /\ routePc = "responded"
  /\ status = 400
  /\ calcRequest.route = "save-profile"
  /\ calcRequest.body.experience = "guru"
  /\ profile \in Profiles

-----------------------------------------------------------------------------
(* Further claims about MicrodoseCalculator *)

\* C15: calculate returns a result record for every parameter record, also for
\* one that validateParams rejects; it raises no error.
C15_CalculateAlwaysReturns ==
  calcPc = "calculated" =>
    /\ ~result.threw
    /\ IsNum(result.calculatedDose) \/ result.calculatedDose = NaN

\* the advisories of each block, in declaration order
BaseAdvisories       == <<"general_1", "general_2", "general_3">>
BeginnerAdvisories   == <<"beginner_1", "beginner_2">>
MedicationAdvisories == <<"medication_1", "medication_2">>
SubstanceAdvisories ==
  [ psilocybin |-> <<"psilocybin_1", "psilocybin_2">>,
    lsd        |-> <<"lsd_1", "lsd_2">>,
    amanita    |-> <<"amanita_1", "amanita_2">>,
    ketamine   |-> <<"ketamine_1", "ketamine_2">> ]

\* C16: the recommendations of a returned result are the 3 base advisories, then
\* the 2 advisories of the substance, then the 2 beginner advisories exactly when
\* experience is beginner, then the 2 medication advisories exactly when
\* currentMedication is present and not empty: 5 + 2 * [beginner] +
\* 2 * [medication] entries, the first 5 fixed by the substance.
C16_RecommendationsInOrder ==
  Returned =>
    LET r          == result.recommendations
        beginner   == params.experience = "beginner"
        medication == params.currentMedication \notin {Missing, ""}
        n          == 5 + (IF beginner THEN 2 ELSE 0) + (IF medication THEN 2 ELSE 0)
    IN  /\ Len(r) = n
        /\ SubSeq(r, 1, 3) = BaseAdvisories
        /\ SubSeq(r, 4, 5) = SubstanceAdvisories[params.substance]
        /\ beginner => SubSeq(r, 6, 7) = BeginnerAdvisories
        /\ medication => SubSeq(r, n - 1, n) = MedicationAdvisories
        /\ ~beginner => \A i \in DOMAIN r : ~includes(BeginnerAdvisories, r[i])
        /\ ~medication => \A i \in DOMAIN r : ~includes(MedicationAdvisories, r[i])

\* a beginner on medication: all four blocks, 9 entries
C16_Witness ==
  /\ Returned
  /\ params.experience = "beginner"
  /\ params.currentMedication = "SSRI"
  /\ Len(result.recommendations) = 9
  /\ result.recommendations[6] = "beginner_1"
  /\ result.recommendations[9] = "medication_2"

-----------------------------------------------------------------------------
(* Claims about concurrent requests *)

\* s is an initial part of t
IsPrefix(s, t) == Len(s) <= Len(t) /\ s = SubSeq(t, 1, Len(s))

\* the rows of the table attributed to caller r's protocol
RowsOf(r) == {e \in eventTable : e.protocolId = runs[r].protocol.id}

\* C17: in every interleaving of the calls, the rows of the table attributed to a
\* protocol are exactly the events its own call has created, these are an initial
\* part of the sequence the call would produce alone, and once the call has
\* returned they are that whole sequence (dates, types, dose fields, metadata and
\* protocolId); no row belongs to no call.
C17_ConcurrentGenerationAsAlone ==
  /\ \A r \in Callers :
       runs[r].pc # "idle" =>
         LET alone == generateProtocolEvents(runs[r].protocol, profile,
                                             runs[r].protocol.startDate, 0)
         IN  /\ RowsOf(r) = {runs[r].events[i] : i \in DOMAIN runs[r].events}
             /\ Cardinality(RowsOf(r)) = Len(runs[r].events)
             /\ IsPrefix(runs[r].events, alone)
             /\ runs[r].pc = "generated" => runs[r].events = alone
  /\ \A e \in eventTable :
       \E r \in Callers : runs[r].pc # "idle" /\ e \in RowsOf(r)

\* both calls have returned, one for a fadiman and one for a custom protocol, on
\* a host in Europe/Berlin, and the table holds the events of both
C17_Witness ==
  /\ \A r \in Callers : runs[r].pc = "generated"
  /\ runs[1].protocol.type = "fadiman"
  /\ runs[2].protocol.type = "custom"
  /\ tz.name = "Europe/Berlin"
  /\ Cardinality(eventTable) = Len(runs[1].events) + Len(runs[2].events)
  /\ Len(runs[1].events) > 1

\* two request bodies are the same but for the time of day of startDate, which
\* falls on the same UTC calendar day in both
DifferInTimeOfDayOnly(a, b) ==
  /\ a.startDate # b.startDate
  /\ a.startDate \div MinutesPerDay = b.startDate \div MinutesPerDay
  /\ [a EXCEPT !.startDate = 0] = [b EXCEPT !.startDate = 0]

\* C18: of two create requests that differ only in the time of day of startDate
\* within one UTC calendar day, the protocols have the same startDate, the UTC
\* midnight of that day, and the same endDate, and the generated event sequences
\* agree in length and, position by position, in date, type and metadata.
C18_TimeOfDayDiscarded ==
  \A r1, r2 \in Callers :
    ( /\ runs[r1].pc = "generated" /\ runs[r2].pc = "generated"
      /\ DifferInTimeOfDayOnly(runs[r1].request, runs[r2].request) ) =>
      /\ runs[r1].protocol.startDate
           = (runs[r1].request.startDate \div MinutesPerDay) * MinutesPerDay
      /\ runs[r1].protocol.startDate = runs[r2].protocol.startDate
      /\ runs[r1].protocol.endDate = runs[r2].protocol.endDate
      /\ Len(runs[r1].events) = Len(runs[r2].events)
      /\ \A i \in DOMAIN runs[r1].events :
           /\ runs[r1].events[i].date = runs[r2].events[i].date
           /\ runs[r1].events[i].type = runs[r2].events[i].type
           /\ runs[r1].events[i].metadata = runs[r2].events[i].metadata

\* a stamets request for 09:30 and the same request for 23:59 of the same day
\* have both been generated on a host in Europe/Berlin
C18_Witness ==
  /\ runs[1].pc = "generated" /\ runs[2].pc = "generated"
  /\ runs[1].request.type = "stamets"
  /\ runs[1].request.startDate = 2 * MinutesPerDay + 570
  /\ runs[2].request.startDate = 3 * MinutesPerDay - 1
  /\ DifferInTimeOfDayOnly(runs[1].request, runs[2].request)
  /\ tz.name = "Europe/Berlin"

-----------------------------------------------------------------------------
(* Further claims about generateProtocolEvents and its notifications *)

\* C19: the metadata of every stored event agrees with the event: daysSinceStart
\* is not negative, is the event's position (from 0) in the sequence and the
\* number of days from startDate to the event's date; dayOfWeek is the weekday of
\* the event's stored date; protocolType is the protocol's type; isDoseDay is
\* true exactly when the type is dose.
C19_MetadataAgreesWithEvent ==
  \A i \in DOMAIN events :
    /\ events[i].metadata.daysSinceStart >= 0
    /\ events[i].metadata.daysSinceStart = i - 1
    /\ events[i].metadata.daysSinceStart
         = (events[i].date - protocol.startDate) \div MinutesPerDay
    /\ events[i].metadata.dayOfWeek = StoredWeekday(events[i])
    /\ events[i].metadata.protocolType = protocol.type
    /\ events[i].metadata.isDoseDay <=> (events[i].type = "dose")

\* the number of stored notifications of a type that refer to an event
NotificationsOf(e, type) ==
  Cardinality({j \in DOMAIN notifications :
                 /\ notifications[j].type = type
                 /\ notifications[j].metadata.eventId = e.id})

\* the number of stored events of type dose
DoseEvents == Cardinality({i \in DOMAIN events : events[i].type = "dose"})

\* how many of morningReminder and eveningReflection are enabled
EnabledSettings ==
  (IF protocol.notificationSettings.morningReminder.enabled THEN 1 ELSE 0)
  + (IF protocol.notificationSettings.eveningReflection.enabled THEN 1 ELSE 0)

\* generateProtocolNotifications has returned
Notified == pc = "notified" \/ (pc = "responded" /\ status = 200)

\* C20: once generateProtocolNotifications has returned, no notification refers
\* to a pause event; each dose event has exactly one reminder if
\* morningReminder.enabled and none otherwise, and exactly one reflection if
\* eveningReflection.enabled and none otherwise; every notification is one of
\* these, refers to an event of the protocol and carries the protocol's id; the
\* total is (number of dose events) * (number of enabled settings).
C20_NotificationsForDoseEventsOnly ==
  Notified =>
    /\ \A i \in DOMAIN events :
         /\ events[i].type = "pause" =>
              /\ NotificationsOf(events[i], "reminder") = 0
              /\ NotificationsOf(events[i], "reflection") = 0
         /\ events[i].type = "dose" =>
              /\ NotificationsOf(events[i], "reminder")
                   = IF protocol.notificationSettings.morningReminder.enabled THEN 1 ELSE 0
              /\ NotificationsOf(events[i], "reflection")
                   = IF protocol.notificationSettings.eveningReflection.enabled THEN 1 ELSE 0
    /\ \A j \in DOMAIN notifications :
         /\ notifications[j].type \in {"reminder", "reflection"}
         /\ notifications[j].metadata.protocolId = protocol.id
         /\ \E i \in DOMAIN events : events[i].id = notifications[j].metadata.eventId
    /\ Len(notifications) = DoseEvents * EnabledSettings

\* the notifications of a stamets protocol with both settings enabled: two for
\* each dose event, none for the pause events there are
C20_Witness ==
  /\ pc = "notified"
  /\ protocol.type = "stamets"
  /\ EnabledSettings = 2
  /\ DoseEvents >= 8
  /\ Len(events) > DoseEvents
  /\ Len(notifications) = 2 * DoseEvents

-----------------------------------------------------------------------------
(* Persistence of the generated events                                      *)

\* C21: generateProtocolEvents changes no stored state: while the generator runs
\* (from its entry to its return) the stored protocolEvent rows stay as they
\* were; the rows are written by the caller after it has returned.
C21_GeneratorLeavesStoreUnchanged ==
  [][pc = "generating" => events' = events]_vars

\* C22: the events of one creation request form an append-only sequence: every
\* step leaves the rows stored so far as they are and adds at most one row behind
\* them, each row is stored once (no id twice), and every row has status
\* scheduled after every step: none is moved to completed, missed or skipped.
C22_EventsAppendOnly ==
  [][ /\ IsPrefix(events, events')
      /\ Len(events') <= Len(events) + 1
      /\ \A i \in 1..Len(events') : events'[i].status = "scheduled"
      /\ \A i, j \in 1..Len(events') : events'[i].id = events'[j].id => i = j ]_vars

\* the loop has run to its end and has stored more than two weeks of rows
C22_Witness ==
  /\ pc = "generated"
  /\ Len(events) > 14
  /\ \A i \in 1..Len(events) : events[i].status = "scheduled"

-----------------------------------------------------------------------------
(* The reference examples of the calculator                                 *)

\* calculate has been called with weight, substance, intake form, sensitivity 1.0
\* and goal as given
CalculatedFor(weight, substance, intakeForm, goal) ==
  /\ calcPc = "calculated"
  /\ params.weight = Rat(weight, 1)
  /\ params.substance = substance
  /\ params.intakeForm = intakeForm
  /\ params.sensitivity = Rat(1, 1)
  /\ params.goal = goal

\* C23: calculate for 70 kg, psilocybin, dried_mushrooms, sensitivity 1.0,
\* standard returns calculatedDose 200 with doseUnit mg and every factor 1.0;
\* calculate for 35 kg, lsd, blotter, sensitivity 1.0, sub_perceptual returns
\* calculatedDose 2.5 in the microgram unit with weightFactor 0.5 and
\* goalFactor 0.5.
C23_ReferenceExamples ==
  /\ CalculatedFor(70, "psilocybin", "dried_mushrooms", "standard") =>
       /\ ~result.threw
       /\ result.calculatedDose = Rat(200, 1)
       /\ result.doseUnit = "mg"
       /\ result.weightFactor = Rat(1, 1)
       /\ result.sensitivityFactor = Rat(1, 1)
       /\ result.goalFactor = Rat(1, 1)
       /\ result.intakeFormFactor = Rat(1, 1)
  /\ CalculatedFor(35, "lsd", "blotter", "sub_perceptual") =>
       /\ ~result.threw
       /\ result.calculatedDose = Rat(5, 2)
       /\ result.doseUnit = "ug"
       /\ result.weightFactor = Rat(1, 2)
       /\ result.goalFactor = Rat(1, 2)

\* the first reference example has been calculated
C23_Witness ==
  /\ CalculatedFor(70, "psilocybin", "dried_mushrooms", "standard")
  /\ result.baseDose = Rat(200, 1)

\* the second reference example has been calculated
C23_WitnessLsd ==
  /\ CalculatedFor(35, "lsd", "blotter", "sub_perceptual")
  /\ result.baseDose = Rat(10, 1)

-----------------------------------------------------------------------------
(* DELETE /api/protocol/:id (src/src/modules/protocol/routes.ts) together   *)
(* with POST /api/journal/entry (src/unnamed/part_004): SpecDelete.         *)
(*                                                                          *)
(* The handlers run without a transaction; each await is a step of its own. *)
(* The schema of the store is not among the sources.  The handler's comment *)
(* "correct order (due to foreign key constraints)" is taken at its word:   *)
(* journalEntry.eventId and protocolEvent.protocolId are foreign keys the   *)
(* store enforces, with referential action Restrict or Cascade.             *)

\* the statuses the tracking of events gives an event that has been started
StartedStatuses == {"completed", "missed", "skipped"}

ReferentialActions == {"Restrict", "Cascade"}

JournalCallers == {1, 2}

\* the request that created the protocol DELETE is asked for
DeleteStartDay == 2
StoredRequest ==
  body("fadiman", DeleteStartDay * MinutesPerDay + 570, Rat(MinCycleLength, 1),
       NoCustom, MorningOnly)

OtherProtocolId == 2
UnknownEventId  == <<OtherProtocolId, 0>>

\* req.params.id of the DELETE requests offered
DeleteIds == {1, OtherProtocolId}

\* data.eventId of the journal requests offered: the first two events of the
\* protocol and an id that names no event
JournalEventIds == {freshId(1, 0), freshId(1, 1), UnknownEventId}

\* the rows evs with the status of row i set to s, as the tracking of the
\* events leaves them (i = 0: all rows as created)
withStatus(evs, i, s) ==
  IF i = 0 THEN evs ELSE [evs EXCEPT ![i].status = s]

\* the journalEntry row a caller creates
journalEntryOf(c, eventId) == [id |-> c, eventId |-> eventId, type |-> "intention"]

EarlierJournalEntry == [id |-> 0, eventId |-> freshId(1, 0), type |-> "reflection"]

\* foreign key journalEntry.eventId -> protocolEvent.id
eventExists(evs, eventId) == \E i \in 1..Len(evs) : evs[i].id = eventId

\* the rows of entries that reference one of the events evs
entriesOf(entries, evs) == {j \in entries : eventExists(evs, j.eventId)}

\* the events of protocol id among evs
eventsOfProtocol(evs, id) == SelectSeq(evs, LAMBDA e : e.protocolId = id)

eventsNotOfProtocol(evs, id) == SelectSeq(evs, LAMBDA e : e.protocolId # id)

\* error.name === 'PrismaClientKnownRequestError' in errorHandler
DatabaseError == 400

deleteActivityOf(p) ==
  [ userId   |-> UserId,
    type     |-> "protocol_deleted",
    metadata |-> [protocolId |-> p.id, protocolType |-> p.type] ]

journalActivityOf(c, eventId) ==
  [ userId   |-> UserId,
    type     |-> "journal_entry_created",
    metadata |-> [journalEntryId |-> c, eventId |-> eventId, type |-> "intention"] ]

DeleteRespond(code) ==
  deletion' = [deletion EXCEPT !.pc = "responded", !.status = code]

\* router.delete('/:id') without the check of started events
DeleteFindUnguarded(id) ==
  /\ deletion.pc = "idle"
  /\ IF protocol = NoProtocol \/ protocol.id # id \/ protocol.userId # UserId
       THEN deletion' = [pc |-> "responded", id |-> id, status |-> 404]
       ELSE deletion' = [ pc       |-> "journalEntries",
                          id       |-> id,
                          status   |-> 0,
                          protocol |-> protocol,
                          eventIds |-> {events[i].id : i \in 1..Len(events)} ]
  /\ UNCHANGED <<onDelete, journalEntries, journal>>
  /\ UNCHANGED <<protoVars, calcVars, multiVars, routeVars, registerVars>>

\* router.delete('/:id'): prisma.protocol.findFirst with its events, the 404
\* and the check of started events, up to the first deleteMany
DeleteFind(id) ==
  /\ deletion.pc = "idle"
  /\ IF protocol = NoProtocol \/ protocol.id # id \/ protocol.userId # UserId
       THEN deletion' = [pc |-> "responded", id |-> id, status |-> 404]
     ELSE IF \E i \in 1..Len(events) : events[i].status \in StartedStatuses
       THEN deletion' = [pc |-> "responded", id |-> id, status |-> 400]
       ELSE deletion' = [ pc       |-> "journalEntries",
                          id       |-> id,
                          status   |-> 0,
                          protocol |-> protocol,
                          eventIds |-> {events[i].id : i \in 1..Len(events)} ]
  /\ UNCHANGED <<onDelete, journalEntries, journal>>
  /\ UNCHANGED <<protoVars, calcVars, multiVars, routeVars, registerVars>>

\* 1. prisma.journalEntry.deleteMany for the event ids read before
DeleteJournalEntries ==
  /\ deletion.pc = "journalEntries"
  /\ journalEntries' = {j \in journalEntries : j.eventId \notin deletion.eventIds}
  /\ deletion' = [deletion EXCEPT !.pc = "events"]
  /\ UNCHANGED <<onDelete, journal>>
  /\ UNCHANGED <<protoVars, calcVars, multiVars, routeVars, registerVars>>

\* 2. prisma.protocolEvent.deleteMany for the protocol id: rows that journal
\* entries reference are refused (Restrict) or take the entries with them
\* (Cascade)
DeleteEvents ==
  /\ deletion.pc = "events"
  /\ LET doomed == eventsOfProtocol(events, deletion.id)
     IN  IF onDelete = "Restrict" /\ entriesOf(journalEntries, doomed) # {}
           THEN /\ DeleteRespond(DatabaseError)
                /\ UNCHANGED <<events, journalEntries>>
           ELSE /\ events' = eventsNotOfProtocol(events, deletion.id)
                /\ journalEntries' = journalEntries \ entriesOf(journalEntries, doomed)
                /\ deletion' = [deletion EXCEPT !.pc = "notifications"]
  /\ UNCHANGED <<onDelete, journal>>
  /\ UNCHANGED <<tz, profile, pc, status, request, protocol, notifications,
                 activities, currentDate, dayCount>>
  /\ UNCHANGED <<calcVars, multiVars, routeVars, registerVars>>

\* 3. prisma.notification.deleteMany for metadata.protocolId
DeleteNotifications ==
  /\ deletion.pc = "notifications"
  /\ notifications' = SelectSeq(notifications,
                                LAMBDA n : ~(n.userId = UserId
                                             /\ n.metadata.protocolId = deletion.id))
  /\ deletion' = [deletion EXCEPT !.pc = "protocol"]
  /\ UNCHANGED <<onDelete, journalEntries, journal>>
  /\ UNCHANGED <<tz, profile, pc, status, request, protocol, events,
                 activities, currentDate, dayCount>>
  /\ UNCHANGED <<calcVars, multiVars, routeVars, registerVars>>

\* 4. prisma.protocol.delete: a row that events reference is refused (Restrict)
\* or takes the events and their entries with it (Cascade)
DeleteProtocol ==
  /\ deletion.pc = "protocol"
  /\ LET doomed == eventsOfProtocol(events, deletion.id)
     IN  IF onDelete = "Restrict" /\ doomed # <<>>
           THEN /\ DeleteRespond(DatabaseError)
                /\ UNCHANGED <<protocol, events, journalEntries>>
           ELSE /\ protocol' = NoProtocol
                /\ events' = eventsNotOfProtocol(events, deletion.id)
                /\ journalEntries' = journalEntries \ entriesOf(journalEntries, doomed)
                /\ deletion' = [deletion EXCEPT !.pc = "activity"]
  /\ UNCHANGED <<onDelete, journal>>
  /\ UNCHANGED <<tz, profile, pc, status, request, notifications,
                 activities, currentDate, dayCount>>
  /\ UNCHANGED <<calcVars, multiVars, routeVars, registerVars>>

\* prisma.userActivity.create and res.json
DeleteActivity ==
  /\ deletion.pc = "activity"
  /\ activities' = Append(activities, deleteActivityOf(deletion.protocol))
  /\ DeleteRespond(200)
  /\ UNCHANGED <<onDelete, journalEntries, journal>>
  /\ UNCHANGED <<tz, profile, pc, status, request, protocol, events, notifications,
                 currentDate, dayCount>>
  /\ UNCHANGED <<calcVars, multiVars, routeVars, registerVars>>

JournalRespond(c, code) ==
  journal' = [journal EXCEPT ![c].pc = "responded", ![c].status = code]

\* router.post('/entry'): prisma.protocolEvent.findFirst for data.eventId among
\* the events of the user's protocols, and the 404
JournalFind(c, eventId) ==
  /\ journal[c].pc = "idle"
  /\ IF protocol # NoProtocol /\ protocol.userId = UserId
          /\ eventExists(eventsOfProtocol(events, protocol.id), eventId)
       THEN journal' = [journal EXCEPT ![c] =
                          [pc |-> "create", eventId |-> eventId, status |-> 0]]
       ELSE journal' = [journal EXCEPT ![c] =
                          [pc |-> "responded", eventId |-> eventId, status |-> 404]]
  /\ UNCHANGED <<onDelete, journalEntries, deletion>>
  /\ UNCHANGED <<protoVars, calcVars, multiVars, routeVars, registerVars>>

\* a store that accepts a journalEntry row whatever its eventId
JournalCreateUnconstrained(c) ==
  /\ journal[c].pc = "create"
  /\ journalEntries' = journalEntries \cup {journalEntryOf(c, journal[c].eventId)}
  /\ journal' = [journal EXCEPT ![c].pc = "activity"]
  /\ UNCHANGED <<onDelete, deletion>>
  /\ UNCHANGED <<protoVars, calcVars, multiVars, routeVars, registerVars>>

\* router.post('/entry'): prisma.journalEntry.create; the store refuses a row
\* whose eventId names no event
JournalCreate(c) ==
  /\ journal[c].pc = "create"
  /\ IF eventExists(events, journal[c].eventId)
       THEN /\ journalEntries' =
                 journalEntries \cup {journalEntryOf(c, journal[c].eventId)}
            /\ journal' = [journal EXCEPT ![c].pc = "activity"]
       ELSE /\ JournalRespond(c, DatabaseError)
            /\ UNCHANGED journalEntries
  /\ UNCHANGED <<onDelete, deletion>>
  /\ UNCHANGED <<protoVars, calcVars, multiVars, routeVars, registerVars>>

\* router.post('/entry'): prisma.userActivity.create and res.json
JournalActivity(c) ==
  /\ journal[c].pc = "activity"
  /\ activities' = Append(activities, journalActivityOf(c, journal[c].eventId))
  /\ JournalRespond(c, 200)
  /\ UNCHANGED <<onDelete, journalEntries, deletion>>
  /\ UNCHANGED <<tz, profile, pc, status, request, protocol, events, notifications,
                 currentDate, dayCount>>
  /\ UNCHANGED <<calcVars, multiVars, routeVars, registerVars>>

\* a protocol created by POST /create on a host in UTC, with its events,
\* notifications and activity; at most one of its events has been tracked
InitDelete ==
  /\ tz = CHOOSE z \in TimeZones : z.name = "UTC"
  /\ profile \in Profiles
  /\ pc = "off"
  /\ status = 0
  /\ request = StoredRequest
  /\ protocol = protocolOf(1, StoredRequest)
  /\ \E i \in {0, 1, 15}, s \in StartedStatuses :
       events = withStatus(generateProtocolEvents(protocol, profile,
                                                  protocol.startDate, 0), i, s)
  /\ notifications = generateProtocolNotifications(tz, protocol, events)
  /\ activities = <<activityOf(StoredRequest, protocol)>>
  /\ currentDate = 0
  /\ dayCount = 0
  /\ CalcIdle
  /\ MultiIdle
  /\ RoutesIdle
  /\ RegisterIdle
  /\ onDelete \in ReferentialActions
  /\ journalEntries \in {{}, {EarlierJournalEntry}}
  /\ deletion = [pc |-> "idle"]
  /\ journal = [c \in JournalCallers |-> [pc |-> "idle"]]

NextDelete ==
  \/ \E id \in DeleteIds : DeleteFind(id)
  \/ DeleteJournalEntries
  \/ DeleteEvents
  \/ DeleteNotifications
  \/ DeleteProtocol
  \/ DeleteActivity
  \/ \E c \in JournalCallers :
       \/ \E eventId \in JournalEventIds : JournalFind(c, eventId)
       \/ JournalCreate(c)
       \/ JournalActivity(c)

SpecDelete == InitDelete /\ [][NextDelete]_vars

-----------------------------------------------------------------------------
(* Deletion of a protocol                                                   *)

\* the stored protocol has an event with status completed, missed or skipped
Started ==
  \E i \in 1..Len(events) : events[i].status \in StartedStatuses

\* DELETE has been answered for the stored protocol
DeleteAnswered ==
  /\ deletion.pc = "responded"
  /\ deletion.id = 1

ProtocolDeletedActivities ==
  SelectSeq(activities, LAMBDA a : a.type = "protocol_deleted")

\* C24: DELETE /api/protocol/:id on a protocol with at least one event of status
\* completed, missed or skipped is answered 400, and while the protocol is in
\* that state no step removes anything: the protocol, its events and its
\* notifications stay as they are, every journal entry stays, and no activity
\* protocol_deleted is recorded.
C24_StartedProtocolNotDeleted ==
  [][ Started =>
        /\ protocol' = protocol
        /\ events' = events
        /\ notifications' = notifications
        /\ journalEntries \subseteq journalEntries'
        /\ ProtocolDeletedActivities' = <<>>
        /\ DeleteAnswered' => deletion'.status = 400 ]_vars

\* DELETE on a started protocol has been answered while a journal entry was
\* created for one of its events
C24_Witness ==
  /\ Started
  /\ DeleteAnswered
  /\ deletion.status = 400
  /\ protocol # NoProtocol
  /\ Len(events) = 15
  /\ \E c \in JournalCallers : journal[c].pc = "responded" /\ journal[c].status = 200

\* every journal entry references a stored event and every event a stored
\* protocol
ReferencesHold ==
  /\ \A j \in journalEntries : eventExists(events, j.eventId)
  /\ \A i \in 1..Len(events) :
       protocol # NoProtocol /\ events[i].protocolId = protocol.id

\* the rows are removed in the order journal entries, events, notifications,
\* protocol: a later step is reached only with the rows of the earlier steps gone
RemovedInOrder ==
  /\ deletion.pc \in {"notifications", "protocol", "activity"} =>
       /\ events = <<>>
       /\ journalEntries = {}
  /\ deletion.pc \in {"protocol", "activity"} => notifications = <<>>
  /\ protocol = NoProtocol =>
       /\ deletion.pc \in {"activity", "responded"}
       /\ notifications = <<>>
       /\ events = <<>>

-----------------------------------------------------------------------------
(* Density of dose days                                                     *)

DaysPerWeek == 7

\* the number of dose events among the events at positions i .. i + 6
DosesInWeekFrom(i) ==
  Cardinality({k \in i..(i + DaysPerWeek - 1) : events[k].type = "dose"})

\* C26: for every accepted protocol, of any type, any 7 consecutive days of the
\* generated schedule hold at most 4 dose events (at least 3 pause events).
C26_AtMostFourDosesInSevenDays ==
  \A i \in 1..(Len(events) - DaysPerWeek + 1) : DosesInWeekFrom(i) <= MaxDoseDays

-----------------------------------------------------------------------------
(* POST /api/microdose/register-with-calculation                            *)
(* (src/src/modules/microdose/routes.ts): SpecRegister.                     *)
(*                                                                          *)
(* The handler runs without a transaction; each await is a step of its own  *)
(* (bcrypt.hash changes nothing and is taken together with user.create).    *)
(* user.email is a unique column: the handler reads it with findUnique.     *)

Registrants == {1, 2}

Emails == {"ada@example.org", "bob@example.org"}

TempCalculationId    == "calc"
UnknownCalculationId == "none"

\* req.body of the registration requests offered (name and password are not
\* read by any check after the schema)
RegistrationRequests ==
  [ email             : Emails,
    tempCalculationId : {TempCalculationId, UnknownCalculationId} ]

\* the temporaryCalculation row with its id and registration columns
registrable(row, isRegistered) ==
  [id |-> TempCalculationId, isRegistered |-> isRegistered, userId |-> 0] @@ row

\* a user stored before the requests
EarlierUser == [id |-> 0, email |-> "ada@example.org"]

userExists(email) == \E u \in users : u.email = email

\* the microdoseProfile row created for user id from the calculation read
profileOf(id, calc) ==
  [ userId            |-> id,
    gender            |-> calc.gender,
    weight            |-> calc.weight,
    substance         |-> calc.substance,
    intakeForm        |-> calc.intakeForm,
    sensitivity       |-> calc.sensitivity,
    goal              |-> calc.goal,
    calculatedDose    |-> calc.calculatedDose,
    doseUnit          |-> calc.doseUnit,
    experience        |-> calc.experience,
    currentMedication |-> calc.currentMedication ]

registrationActivitiesOf(id, calc) ==
  << [ userId |-> id, type |-> "account_created" ],
     [ userId   |-> id,
       type     |-> "microdose_calculated",
       metadata |-> [ substance      |-> calc.substance,
                      calculatedDose |-> calc.calculatedDose,
                      doseUnit       |-> calc.doseUnit,
                      intakeForm     |-> calc.intakeForm ] ] >>

RegisterRespond(r, code) ==
  registrations' = [registrations EXCEPT ![r].pc = "responded", ![r].status = code]

\* registrationSchema.parse and prisma.user.findUnique by email: 400 when the
\* user exists
RegisterFindUser(r, b) ==
  /\ registrations[r].pc = "idle"
  /\ registrations' = [registrations EXCEPT ![r] =
       IF userExists(b.email)
         THEN [pc |-> "responded", body |-> b, status |-> 400]
         ELSE [pc |-> "findCalculation", body |-> b, status |-> 0]]
  /\ UNCHANGED <<users, profileTable, tempCalculation>>
  /\ UNCHANGED <<protoVars, calcVars, multiVars, deleteVars, calcRequest, routePc>>

\* prisma.temporaryCalculation.findUnique by id: 404 when there is none, 400
\* when it is registered
RegisterFindCalculation(r) ==
  /\ registrations[r].pc = "findCalculation"
  /\ IF \/ tempCalculation = NoRow
        \/ tempCalculation.id # registrations[r].body.tempCalculationId
       THEN RegisterRespond(r, 404)
     ELSE IF tempCalculation.isRegistered
       THEN registrations' = [registrations EXCEPT
                                ![r] = [ pc              |-> "responded",
                                         body            |-> @.body,
                                         status          |-> 400,
                                         tempCalculation |-> tempCalculation ]]
       ELSE registrations' = [registrations EXCEPT
                                ![r] = [ pc              |-> "createUser",
                                         body            |-> @.body,
                                         status          |-> 0,
                                         tempCalculation |-> tempCalculation ]]
  /\ UNCHANGED <<users, profileTable, tempCalculation>>
  /\ UNCHANGED <<protoVars, calcVars, multiVars, deleteVars, calcRequest, routePc>>

\* bcrypt.hash and prisma.user.create: the store refuses a second row with the
\* same email
RegisterCreateUser(r) ==
  /\ registrations[r].pc = "createUser"
  /\ IF userExists(registrations[r].body.email)
       THEN /\ RegisterRespond(r, DatabaseError)
            /\ UNCHANGED users
       ELSE /\ users' = users \cup {[id |-> r, email |-> registrations[r].body.email]}
            /\ registrations' = [registrations EXCEPT ![r].pc = "createProfile"]
  /\ UNCHANGED <<profileTable, tempCalculation>>
  /\ UNCHANGED <<protoVars, calcVars, multiVars, deleteVars, calcRequest, routePc>>

\* prisma.microdoseProfile.create from the calculation read before
RegisterCreateProfile(r) ==
  /\ registrations[r].pc = "createProfile"
  /\ profileTable' = profileTable \cup {profileOf(r, registrations[r].tempCalculation)}
  /\ registrations' = [registrations EXCEPT ![r].pc = "createActivities"]
  /\ UNCHANGED <<users, tempCalculation>>
  /\ UNCHANGED <<protoVars, calcVars, multiVars, deleteVars, calcRequest, routePc>>

\* prisma.userActivity.createMany
RegisterCreateActivities(r) ==
  /\ registrations[r].pc = "createActivities"
  /\ activities' = activities
                     \o registrationActivitiesOf(r, registrations[r].tempCalculation)
  /\ registrations' = [registrations EXCEPT ![r].pc = "update"]
  /\ UNCHANGED <<users, profileTable, tempCalculation>>
  /\ UNCHANGED <<tz, profile, pc, status, request, protocol, events, notifications,
                 currentDate, dayCount>>
  /\ UNCHANGED <<calcVars, multiVars, deleteVars, calcRequest, routePc>>

\* prisma.temporaryCalculation.update (isRegistered: true) and res.json
RegisterUpdate(r) ==
  /\ registrations[r].pc = "update"
  /\ tempCalculation' = [tempCalculation EXCEPT !.isRegistered = TRUE, !.userId = r]
  /\ RegisterRespond(r, 200)
  /\ UNCHANGED <<users, profileTable>>
  /\ UNCHANGED <<protoVars, calcVars, multiVars, deleteVars, calcRequest, routePc>>

\* a calculation stored by POST /calculate-temporary, registered or not, and
\* possibly a user stored before
InitRegister ==
  /\ ProtoIdle
  /\ CalcIdle
  /\ MultiIdle
  /\ DeleteIdle
  /\ calcRequest = NoRequest
  /\ routePc = "off"
  /\ tempCalculation \in {registrable(EarlierTempCalculation, b) : b \in BOOLEAN}
  /\ users \in {{}, {EarlierUser}}
  /\ profileTable = {}
  /\ registrations = [r \in Registrants |-> [pc |-> "idle"]]

NextRegister ==
  \E r \in Registrants :
    \/ \E b \in RegistrationRequests : RegisterFindUser(r, b)
    \/ RegisterFindCalculation(r)
    \/ RegisterCreateUser(r)
    \/ RegisterCreateProfile(r)
    \/ RegisterCreateActivities(r)
    \/ RegisterUpdate(r)

SpecRegister == InitRegister /\ [][NextRegister]_vars

\* the users and profiles created by the registration requests
RegisteredUsers    == {u \in users : u.id \in Registrants}
RegisteredProfiles == {p \in profileTable : p.userId \in Registrants}

\* the handler of r has read the calculation and found isRegistered set
FoundRegistered(r) ==
  /\ registrations[r].pc = "responded"
  /\ "tempCalculation" \in DOMAIN registrations[r]
  /\ registrations[r].tempCalculation.isRegistered

\* C27: whatever the interleaving of the registration requests that name the
\* same tempCalculationId, at most one user and at most one microdose profile
\* are created from the calculation, and a request that finds isRegistered set
\* is answered 400 and creates no user and no profile.
C27_RegisteredAtMostOnce ==
  /\ Cardinality(RegisteredUsers) <= 1
  /\ Cardinality(RegisteredProfiles) <= 1
  /\ \A r \in Registrants :
       FoundRegistered(r) =>
         /\ registrations[r].status = 400
         /\ \A u \in users : u.id # r
         /\ \A p \in profileTable : p.userId # r

-----------------------------------------------------------------------------
(* POST /api/protocol/create on a store that can fail: SpecFailing.         *)
(*                                                                          *)
(* Every prisma call of the handler is awaited inside one try block; a call *)
(* that rejects (connection lost, constraint violated) ends the handler in  *)
(* the catch block with next(error), and errorHandler answers 400 for a     *)
(* PrismaClientKnownRequestError and 500 otherwise.  The handler opens no   *)
(* transaction and the catch block removes nothing.                         *)

InternalServerError == 500

\* the awaited call of the current step rejects: prisma.protocolEvent.create in
\* the loop, prisma.notification.create or prisma.userActivity.create
StoreFails(code) ==
  /\ pc \in {"generating", "generated", "notified"}
  /\ pc = "generating" => currentDate <= protocol.endDate
  /\ status' = code
  /\ pc' = "responded"
  /\ UNCHANGED <<tz, profile, request, protocol, events, notifications, activities,
                 currentDate, dayCount>>
  /\ UNCHANGED <<calcVars, otherVars>>

NextFailing ==
  \/ /\ pc = "idle"
     /\ \E req \in MultiRequests : Create(req)
  \/ GenerateStep
  \/ GenerateReturn
  \/ Notify
  \/ Respond
  \/ \E code \in {DatabaseError, InternalServerError} : StoreFails(code)

SpecFailing == Init /\ [][NextFailing]_vars

\* the stored protocol has one event for each of its 7 * cycleLength + 1 days
EventsComplete ==
  protocol.cycleLength.d * Len(events)
    = DaysPerWeek * protocol.cycleLength.n + protocol.cycleLength.d

\* C28: creation is all-or-nothing: once the request is answered, with success
\* or after a failure in the middle of the generation of events or
\* notifications, a stored protocol with cycle length n has its complete set of
\* 7 * n + 1 events; no protocol is left stored with a part of its events.
C28_CreationAllOrNothing ==
  (pc = "responded" /\ protocol # NoProtocol) => EventsComplete

-----------------------------------------------------------------------------
(* Monotonicity of the calculated dose                                      *)

\* the dose for the state's parameters with the sensitivity replaced
DoseWithSensitivity(s) == calculate([params EXCEPT !.sensitivity = s]).calculatedDose

\* calculate has returned a result for parameters validateParams accepts
ValidCase == Returned /\ validation.isValid

\* C29: with the other parameters fixed (and valid), calculatedDose does not
\* decrease when the weight grows, when the sensitivity grows, or when the goal
\* goes from sub_perceptual to standard to upper_microdose: rounding never
\* makes a larger raw product give a smaller calculated dose.
C29_DoseMonotone ==
  ValidCase =>
    /\ \A w \in CalcWeights :
         Less(params.weight, w) =>
           LessEq(result.calculatedDose, ResultWithWeight(w).calculatedDose)
    /\ \A s \in CalcSensitivities :
         Less(params.sensitivity, s) =>
           LessEq(result.calculatedDose, DoseWithSensitivity(s))
    /\ params.goal = "sub_perceptual" =>
         /\ LessEq(result.calculatedDose, DoseWithGoal("standard"))
         /\ LessEq(DoseWithGoal("standard"), DoseWithGoal("upper_microdose"))

\* a result that a heavier weight raises and a higher sensitivity leaves as it
\* is after rounding
C29_Witness ==
  /\ ValidCase
  /\ params.goal = "sub_perceptual"
  /\ \E w \in CalcWeights :
       /\ Less(params.weight, w)
       /\ Less(result.calculatedDose, ResultWithWeight(w).calculatedDose)
  /\ \E s \in CalcSensitivities :
       /\ Less(params.sensitivity, s)
       /\ DoseWithSensitivity(s) = result.calculatedDose

-----------------------------------------------------------------------------
(* The route schema and validateParams                                      *)

\* validateParams reports the message of field i for record p
Reports(p, i) ==
  \E j \in DOMAIN validateParams(p).errors :
    validateParams(p).errors[j] = FieldMessages[i]

\* the handler has called validateParams
ValidateParamsCalled == "errors" \in DOMAIN validation

====
